---- MODULE Spec2Model ----
(***************************************************************************)
(* The shop-attendance prototypes of this repository, one state machine    *)
(* per source file.  `variant' names the file that is running; the other   *)
(* variables hold that file's persistent stores (users, attendance rows,   *)
(* messages), its session, the wall clock, and the message that the last   *)
(* handler displayed together with the username it names.                  *)
(*                                                                         *)
(*   trail12.py  Flask + SQLite, users with AUTOINCREMENT ids              *)
(*   trail9.py   Streamlit + CSV files re-read by pandas on every call     *)
(*   trail8.py   Streamlit + users.json + attendance.csv (dtype=str)       *)
(*   trial6.py   Streamlit + users.json + attendance.csv, mark/edit page   *)
(*   trail4.py   Streamlit + users.json + attendance.csv, insert-only mark *)
(***************************************************************************)
EXTENDS Integers, Sequences, FiniteSets, TLC

VARIABLES variant, users, attendance, messages, sqlite_sequence, inflight,
          session, now, flash

vars == <<variant, users, attendance, messages, sqlite_sequence, inflight,
          session, now, flash>>

stores == <<users, attendance, messages, sqlite_sequence>>

(***************************************************************************)
(* Bounds of the model.                                                    *)
(***************************************************************************)
MaxTime == 2
MaxRows == 2
MaxUserId == 3
MaxAttendanceId == 3
MaxUsers == 3
MaxMsgs == 1

(***************************************************************************)
(* Input alphabets.  "7" stands for the all-digit usernames, which pandas  *)
(* reads back from a CSV file as integers.                                 *)
(***************************************************************************)
Usernames == {"owner", "a", "7"}

\* the usernames typed into the forms of trail12.py; the last one is spelled
\* a , " b (the ' of its name stands for the double quote) and needs quoting
\* in a CSV file
Usernames12 == {"owner", "7", "a,'b"}
Passwords == {"pw"}
FormText == {"", "hello"}

SeqRange(s) == {s[i] : i \in 1..Len(s)}

SelectIdx(s, P(_)) == {i \in 1..Len(s) : P(s[i])}

RECURSIVE SeqFilter(_, _)
SeqFilter(s, keep) ==
    IF s = <<>> THEN <<>>
    ELSE IF 1 \in keep
         THEN <<Head(s)>> \o SeqFilter(Tail(s), {i - 1 : i \in keep \ {1}})
         ELSE SeqFilter(Tail(s), {i - 1 : i \in keep \ {1}})

(***************************************************************************)
(* The wall clock that datetime.now() reads, in whole ticks.               *)
(***************************************************************************)
Tick ==
    /\ now < MaxTime
    /\ now' = now + 1
    /\ UNCHANGED <<variant, inflight, stores, session, flash>>

(***************************************************************************)
(* Python string operations, on strings held as tuples of characters.      *)
(***************************************************************************)
Digits == {"0", "1", "2", "3", "4", "5", "6", "7", "8", "9"}

DigitVal(c) ==
    CASE c = "0" -> 0 [] c = "1" -> 1 [] c = "2" -> 2 [] c = "3" -> 3
      [] c = "4" -> 4 [] c = "5" -> 5 [] c = "6" -> 6 [] c = "7" -> 7
      [] c = "8" -> 8 [] c = "9" -> 9

RECURSIVE lstrip(_)
lstrip(s) == IF s # <<>> /\ Head(s) = " " THEN lstrip(Tail(s)) ELSE s

RECURSIVE rstrip(_)
rstrip(s) ==
    IF s # <<>> /\ s[Len(s)] = " " THEN rstrip(SubSeq(s, 1, Len(s) - 1)) ELSE s

strip(s) == rstrip(lstrip(s))

startswith(s, p) == Len(s) >= Len(p) /\ SubSeq(s, 1, Len(p)) = p

\* s.split(":", 1)[1]: what follows the first colon; scan_qr applies it only
\* to text that holds one, for any other text the result here is empty
RECURSIVE after_colon(_)
after_colon(s) ==
    IF s = <<>> THEN <<>>
    ELSE IF Head(s) = ":" THEN Tail(s) ELSE after_colon(Tail(s))

RECURSIVE digits_value(_, _)
digits_value(s, acc) ==
    IF s = <<>> THEN acc ELSE digits_value(Tail(s), 10 * acc + DigitVal(Head(s)))

\* int(s): surrounding blanks and one sign are accepted, then digits only
int_body(s) ==
    LET t == strip(s)
    IN  IF t # <<>> /\ Head(t) \in {"+", "-"} THEN Tail(t) ELSE t

int_raises(s) ==
    int_body(s) = <<>> \/ \E i \in 1..Len(int_body(s)) : int_body(s)[i] \notin Digits

py_int(s) ==
    IF strip(s) # <<>> /\ Head(strip(s)) = "-"
    THEN 0 - digits_value(int_body(s), 0)
    ELSE digits_value(int_body(s), 0)

(***************************************************************************)
(* trail12.py: Flask routes over the SQLite tables users, attendance and   *)
(* messages.                                                               *)
(***************************************************************************)
NULL == 0

ATTEND == <<"A", "T", "T", "E", "N", "D", ":">>

\* what generate_qr_for_user encodes for a user id
qr_data(user_id) ==
    ATTEND \o <<CHOOSE c \in Digits : DigitVal(c) = user_id>>

QRValues ==
    {qr_data(i) : i \in 1..MaxUserId + 1}
      \cup { ATTEND \o <<"x">>,
             ATTEND,
             <<"2">>,
             <<"U", "S", "E", "R", ":", "2">>,
             <<" ">> \o qr_data(2) \o <<" ">>,
             ATTEND \o <<"-", "2">> }

generate_password_hash(password) == <<"pbkdf2", password>>

check_password_hash(pwhash, password) == pwhash = <<"pbkdf2", password>>

NoSession == <<>>

\* the decorator without the role test: any logged-in session passes
login_required_any_role(role) ==
    IF "user_id" \notin DOMAIN session THEN "login" ELSE "ok"

login_required(role) ==
    IF "user_id" \notin DOMAIN session THEN "login"
    ELSE IF role # "" /\ session.role # role THEN "Access denied."
    ELSE "ok"

owner_count == Cardinality({i \in DOMAIN users : users[i].role = "owner"})

username_taken(username) == \E i \in DOMAIN users : users[i].username = username

\* INSERT INTO users: the UNIQUE(username) constraint is checked by the caller.
\* sqlite_sequence holds, for each AUTOINCREMENT table, the largest id given
\* out so far; an id is never given out twice.
insert_user(username, password, role) ==
    /\ sqlite_sequence.users < MaxUserId
    /\ users' = [i \in DOMAIN users \cup {sqlite_sequence.users + 1} |->
                    IF i \in DOMAIN users THEN users[i]
                    ELSE [username |-> username,
                          password_hash |-> generate_password_hash(password),
                          role |-> role]]
    /\ sqlite_sequence' = [sqlite_sequence EXCEPT !.users = @ + 1]

t12_register_owner(username, password) ==
    /\ variant = "trail12"
    /\ UNCHANGED <<variant, inflight, now>>
    /\ UNCHANGED <<attendance, messages, session>>
    /\ IF owner_count > 0
       THEN flash' = <<"login", "">> /\ UNCHANGED <<users, sqlite_sequence>>
       ELSE IF username = "" \/ password = ""
       THEN /\ flash' = <<"Username and password required.", "">>
            /\ UNCHANGED <<users, sqlite_sequence>>
       ELSE IF username_taken(username)
       THEN flash' = <<"Username already exists.", "">> /\ UNCHANGED <<users, sqlite_sequence>>
       ELSE /\ insert_user(username, password, "owner")
            /\ flash' = <<"Owner created. Please log in.", "">>

t12_login(username, password) ==
    /\ variant = "trail12"
    /\ UNCHANGED <<variant, inflight, now>>
    /\ UNCHANGED stores
    /\ IF \E i \in DOMAIN users :
            /\ users[i].username = username
            /\ check_password_hash(users[i].password_hash, password)
       THEN LET i == CHOOSE i \in DOMAIN users : users[i].username = username
            IN  /\ session' = [user_id |-> i, username |-> users[i].username,
                               role |-> users[i].role]
                /\ flash' = <<"dashboard", users[i].role>>
       ELSE /\ flash' = <<"Invalid username or password.", "">>
            /\ UNCHANGED session

\* a logout that redirects without session.clear()
t12_logout_keeps_session ==
    /\ variant = "trail12"
    /\ UNCHANGED <<variant, inflight, now>>
    /\ UNCHANGED session
    /\ flash' = <<"login", "">>
    /\ UNCHANGED stores

t12_logout ==
    /\ variant = "trail12"
    /\ UNCHANGED <<variant, inflight, now>>
    /\ session' = NoSession
    /\ flash' = <<"login", "">>
    /\ UNCHANGED stores

t12_manage_staff_add(username, password) ==
    /\ variant = "trail12"
    /\ UNCHANGED <<variant, inflight, now>>
    /\ UNCHANGED <<attendance, messages, session>>
    /\ IF login_required("owner") # "ok"
       THEN flash' = <<login_required("owner"), "">> /\ UNCHANGED <<users, sqlite_sequence>>
       ELSE IF username = "" \/ password = ""
       THEN /\ flash' = <<"Username and password required.", "">>
            /\ UNCHANGED <<users, sqlite_sequence>>
       ELSE IF username_taken(username)
       THEN flash' = <<"Username already exists.", "">> /\ UNCHANGED <<users, sqlite_sequence>>
       ELSE /\ insert_user(username, password, "staff")
            /\ flash' = <<"Staff added.", username>>

\* DELETE FROM attendance / messages / users WHERE ... = user_id
delete_cascade(user_id) ==
    /\ attendance' =
          SeqFilter(attendance, SelectIdx(attendance, LAMBDA a : a.user_id # user_id))
    /\ messages' = SeqFilter(messages, SelectIdx(messages, LAMBDA m : m.to_user_id # user_id))
    /\ users' = [i \in DOMAIN users \ {user_id} |-> users[i]]

\* the delete without the role test of its SELECT: any user can be deleted
t12_manage_staff_delete_any_role(user_id) ==
    /\ variant = "trail12"
    /\ UNCHANGED <<variant, inflight, now>>
    /\ UNCHANGED <<sqlite_sequence, session>>
    /\ IF login_required("owner") # "ok"
       THEN flash' = <<login_required("owner"), "">> /\ UNCHANGED <<users, attendance, messages>>
       ELSE IF user_id \in DOMAIN users
       THEN delete_cascade(user_id) /\ flash' = <<"Staff deleted.", users[user_id].username>>
       ELSE flash' = <<"manage_staff", "">> /\ UNCHANGED <<users, attendance, messages>>

t12_manage_staff_delete(user_id) ==
    /\ variant = "trail12"
    /\ UNCHANGED <<variant, inflight, now>>
    /\ UNCHANGED <<sqlite_sequence, session>>
    /\ IF login_required("owner") # "ok"
       THEN flash' = <<login_required("owner"), "">> /\ UNCHANGED <<users, attendance, messages>>
       ELSE IF user_id \in DOMAIN users /\ users[user_id].role = "staff"
       THEN delete_cascade(user_id) /\ flash' = <<"Staff deleted.", users[user_id].username>>
       ELSE flash' = <<"manage_staff", "">> /\ UNCHANGED <<users, attendance, messages>>

\* SELECT * FROM attendance WHERE user_id=? AND check_out IS NULL
\*   ORDER BY check_in DESC LIMIT 1
open_rows(user_id) ==
    {i \in 1..Len(attendance) :
        attendance[i].user_id = user_id /\ attendance[i].check_out = NULL}

latest_open_rows(user_id) ==
    {i \in open_rows(user_id) :
        \A j \in open_rows(user_id) : attendance[j].check_in <= attendance[i].check_in}

\* INSERT INTO attendance (user_id, check_in) VALUES (?, ?)
insert_attendance(user_id, check_in) ==
    /\ Len(attendance) < MaxRows
    /\ sqlite_sequence.attendance < MaxAttendanceId
    /\ attendance' = Append(attendance,
            [id |-> sqlite_sequence.attendance + 1, user_id |-> user_id,
             check_in |-> check_in, check_out |-> NULL])
    /\ sqlite_sequence' = [sqlite_sequence EXCEPT !.attendance = @ + 1]

\* the check-in / check-out that scan_qr and owner_mark_attendance both run
check_in_or_out(user_id) ==
    IF open_rows(user_id) # {}
    THEN /\ \E i \in latest_open_rows(user_id) :
              attendance' = [attendance EXCEPT ![i].check_out = now]
         /\ UNCHANGED sqlite_sequence
         /\ flash' = <<"Checked OUT", users[user_id].username>>
    ELSE /\ insert_attendance(user_id, now)
         /\ flash' = <<"Checked IN", users[user_id].username>>

is_staff_id(user_id) == user_id \in DOMAIN users /\ users[user_id].role = "staff"

\* the validation without the prefix test: only the integer conversion
qr_invalid_suffix_only(qr_value) ==
    int_raises(after_colon(strip(qr_value)))

\* the two payload checks of scan_qr: the prefix, then int() of the suffix
qr_invalid(qr_value) ==
    \/ ~startswith(strip(qr_value), ATTEND)
    \/ int_raises(after_colon(strip(qr_value)))

t12_scan_qr(qr_value) ==
    /\ variant = "trail12"
    /\ UNCHANGED <<variant, inflight, now>>
    /\ UNCHANGED <<users, messages, session>>
    /\ IF login_required("owner") # "ok"
       THEN flash' = <<login_required("owner"), "">> /\ UNCHANGED <<attendance, sqlite_sequence>>
       ELSE IF qr_invalid(qr_value)
       THEN flash' = <<"Invalid QR value.", "">> /\ UNCHANGED <<attendance, sqlite_sequence>>
       ELSE IF ~is_staff_id(py_int(after_colon(strip(qr_value))))
       THEN /\ flash' = <<"QR does not belong to a staff member.", "">>
            /\ UNCHANGED <<attendance, sqlite_sequence>>
       ELSE check_in_or_out(py_int(after_colon(strip(qr_value))))

\* a manual mark that always opens a record and never closes one
t12_owner_mark_attendance_insert_only(staff_id) ==
    /\ variant = "trail12"
    /\ UNCHANGED <<variant, inflight, now>>
    /\ UNCHANGED <<users, messages, session>>
    /\ IF login_required("owner") # "ok"
       THEN flash' = <<login_required("owner"), "">> /\ UNCHANGED <<attendance, sqlite_sequence>>
       ELSE IF staff_id = 0
       THEN flash' = <<"Select a staff member.", "">> /\ UNCHANGED <<attendance, sqlite_sequence>>
       ELSE IF ~is_staff_id(staff_id)
       THEN flash' = <<"Selected user is not staff.", "">> /\ UNCHANGED <<attendance, sqlite_sequence>>
       ELSE /\ insert_attendance(staff_id, now)
            /\ flash' = <<"Checked IN", users[staff_id].username>>

t12_owner_mark_attendance(staff_id) ==
    /\ variant = "trail12"
    /\ UNCHANGED <<variant, inflight, now>>
    /\ UNCHANGED <<users, messages, session>>
    /\ IF login_required("owner") # "ok"
       THEN flash' = <<login_required("owner"), "">> /\ UNCHANGED <<attendance, sqlite_sequence>>
       ELSE IF staff_id = 0
       THEN flash' = <<"Select a staff member.", "">> /\ UNCHANGED <<attendance, sqlite_sequence>>
       ELSE IF ~is_staff_id(staff_id)
       THEN flash' = <<"Selected user is not staff.", "">> /\ UNCHANGED <<attendance, sqlite_sequence>>
       ELSE check_in_or_out(staff_id)

t12_send_message(to_user_id, body) ==
    /\ variant = "trail12"
    /\ UNCHANGED <<variant, inflight, now>>
    /\ UNCHANGED <<users, attendance, sqlite_sequence, session>>
    /\ IF login_required("owner") # "ok"
       THEN flash' = <<login_required("owner"), "">> /\ UNCHANGED messages
       ELSE IF to_user_id = 0 \/ body = ""
       THEN /\ flash' = <<"Select staff and enter a message.", "">>
            /\ UNCHANGED messages
       ELSE /\ Len(messages) < MaxMsgs
            /\ messages' = Append(messages,
                    [to_user_id |-> to_user_id, body |-> body])
            /\ flash' = <<"Information sent.", "">>

Init12 ==
    /\ variant = "trail12"
    /\ inflight = <<>>
    /\ users = <<>>
    /\ attendance = <<>>
    /\ messages = <<>>
    /\ sqlite_sequence = [users |-> 0, attendance |-> 0]
    /\ session = NoSession
    /\ now = 1
    /\ flash = <<"", "">>

Next12 ==
    \/ \E u \in {"owner", ""}, p \in Passwords : t12_register_owner(u, p)
    \/ \E u \in Usernames12, p \in Passwords \cup {"bad"} : t12_login(u, p)
    \/ t12_logout
    \/ \E u \in Usernames12 \cup {""}, p \in Passwords : t12_manage_staff_add(u, p)
    \/ \E i \in 1..MaxUserId : t12_manage_staff_delete(i)
    \/ \E q \in QRValues : t12_scan_qr(q)
    \/ \E i \in 0..MaxUserId : t12_owner_mark_attendance(i)
    \/ \E i \in 0..MaxUserId, b \in FormText : t12_send_message(i, b)
    \/ Tick

Spec12 == Init12 /\ [][Next12]_vars

(***************************************************************************)
(* trail9.py: Streamlit pages over users.csv, attendance.csv and           *)
(* warnings.csv.  The variables hold the files' text; every call reads     *)
(* them back through pandas.                                               *)
(***************************************************************************)
EmptyStr == -2

NaN == -1

None == "None"

\* the all-digit usernames of the alphabet
Numeric == {"7"}

notna(v) == v # NaN

\* the cells that pd.read_csv takes for a missing value (its default
\* na_values hold "", "NA", "NaN", "null", "N/A", ...)
NAValues == {"", "NA"}

\* the text of a number held in a float64 column
as_float(text) == IF text = "7" THEN "7.0" ELSE text

\* the type pd.read_csv gives the username column: int64 when every cell is
\* a whole number, float64 when the others are missing, else strings
username_dtype(rows) ==
    IF \A j \in 1..Len(rows) : rows[j].username \in Numeric THEN "int64"
    ELSE IF \A j \in 1..Len(rows) :
               rows[j].username \in Numeric \cup {"7.0"} \cup NAValues
    THEN "float64"
    ELSE "str"

\* pd.read_csv without dtype: the username column typed as above, a missing
\* username as NaN (which to_csv writes as an empty cell); an empty
\* check_out_time is read as NaN
read_csv(rows) ==
    [i \in 1..Len(rows) |->
        [username |-> IF rows[i].username \in NAValues THEN <<"NaN", "">>
                      ELSE IF username_dtype(rows) = "float64"
                      THEN <<"float64", as_float(rows[i].username)>>
                      ELSE <<username_dtype(rows), rows[i].username>>,
         check_in_time |-> rows[i].check_in_time,
         check_out_time |-> IF rows[i].check_out_time = EmptyStr THEN NaN
                            ELSE rows[i].check_out_time]]

\* DataFrame.to_csv: numbers and strings as their text, NaN as an empty cell
to_csv(df) ==
    [i \in 1..Len(df) |->
        [username |-> df[i].username[2],
         check_in_time |-> df[i].check_in_time,
         check_out_time |-> IF df[i].check_out_time = NaN THEN EmptyStr
                            ELSE df[i].check_out_time]]

load_attendance == read_csv(attendance)

save_attendance(df) == attendance' = to_csv(df)

\* df[df["username"] == username], as the positions of the rows
user_records(df, username) ==
    {i \in 1..Len(df) : df[i].username = <<"str", username>>}

Max(S) == CHOOSE m \in S : \A x \in S : x <= m

mark_attendance(username) ==
    LET df == load_attendance
        mine == user_records(df, username)
    IN  IF mine = {} \/ notna(df[Max(mine)].check_out_time)
        THEN /\ Len(df) < MaxRows
             /\ save_attendance(Append(df,
                    [username |-> <<"str", username>>, check_in_time |-> now,
                     check_out_time |-> EmptyStr]))
             /\ flash' = <<"checked in", username>>
        ELSE /\ save_attendance(
                  [i \in 1..Len(df) |->
                      IF i \in mine THEN [df[i] EXCEPT !.check_out_time = now]
                      ELSE df[i]])
             /\ flash' = <<"checked out", username>>

\* scan_qr_image: the first decoded object's text, or None
scan_qr_image(decoded_objects) ==
    IF decoded_objects # <<>> THEN decoded_objects[1] ELSE None

truthy(v) == v # None /\ v # ""

usernames_in(rows) == {rows[i].username : i \in 1..Len(rows)}

user_row(rows, username) ==
    rows[CHOOSE i \in 1..Len(rows) :
            /\ rows[i].username = username
            /\ \A j \in 1..i - 1 : rows[j].username # username]

\* a missing username as the frame holds it: float NaN, which no typed text
\* equals and which is unequal to every value, itself included
NaNCell == "float(nan)"

\* pd.read_csv(USERS_FILE): the username column always holds "owner", so it
\* is read as strings; a cell of NAValues is read as NaN
users_read_csv(rows) ==
    [i \in 1..Len(rows) |->
        [rows[i] EXCEPT !.username = IF @ \in NAValues THEN NaNCell ELSE @]]

\* df.to_csv(USERS_FILE): NaN is written as an empty cell
users_to_csv(df) ==
    [i \in 1..Len(df) |-> [df[i] EXCEPT !.username = IF @ = NaNCell THEN "" ELSE @]]

save_users(df) == users' = users_to_csv(df)

default_owner == [username |-> "owner", password |-> "owner123", role |-> "owner"]

ensure_default_owner(rows) ==
    IF "owner" \notin usernames_in(rows) THEN Append(rows, default_owner) ELSE rows

load_users == ensure_default_owner(users_read_csv(users))

staff_list == SeqFilter(load_users, SelectIdx(load_users, LAMBDA u : u.role = "staff"))

LoggedOut == [logged_in |-> FALSE, username |-> "", role |-> "", page |-> "login"]

t9_login_page(username, password) ==
    /\ variant = "trail9"
    /\ UNCHANGED <<variant, inflight, now, stores>>
    /\ ~session.logged_in /\ session.page = "login"
    /\ IF username \in usernames_in(load_users)
       THEN IF user_row(load_users, username).password = password
            THEN /\ session' = [logged_in |-> TRUE, username |-> username,
                                role |-> user_row(load_users, username).role,
                                page |-> "dashboard"]
                 /\ flash' = <<"dashboard", "">>
            ELSE flash' = <<"", "">> /\ UNCHANGED session
       ELSE flash' = <<"Invalid credentials", "">> /\ UNCHANGED session

t9_goto(page) ==
    /\ variant = "trail9"
    /\ UNCHANGED <<variant, inflight, now, stores>>
    /\ ~session.logged_in
    /\ session.page # page
    /\ session' = [session EXCEPT !.page = page]
    /\ flash' = <<page, "">>

t9_qr_login_page(decoded_objects) ==
    /\ variant = "trail9"
    /\ UNCHANGED <<variant, inflight, now, stores>>
    /\ ~session.logged_in /\ session.page = "qr_login"
    /\ IF ~truthy(scan_qr_image(decoded_objects))
       THEN flash' = <<"", "">> /\ UNCHANGED session
       ELSE IF scan_qr_image(decoded_objects) \in usernames_in(load_users)
       THEN /\ session' = [logged_in |-> TRUE,
                           username |-> scan_qr_image(decoded_objects),
                           role |-> user_row(load_users,
                                             scan_qr_image(decoded_objects)).role,
                           page |-> "dashboard"]
            /\ flash' = <<"dashboard", "">>
       ELSE flash' = <<"QR does not match any user", "">> /\ UNCHANGED session

t9_logout ==
    /\ variant = "trail9"
    /\ UNCHANGED <<variant, inflight, now, stores>>
    /\ session.logged_in
    /\ session' = LoggedOut
    /\ flash' = <<"login", "">>

\* dashboard, role owner, menu "Mark Attendance": an uploaded or scanned QR
t9_dashboard_mark_attendance(decoded_objects) ==
    /\ variant = "trail9"
    /\ UNCHANGED <<variant, inflight, now, users, messages, sqlite_sequence, session>>
    /\ session.logged_in /\ session.role = "owner"
    /\ IF truthy(scan_qr_image(decoded_objects))
       THEN mark_attendance(scan_qr_image(decoded_objects))
       ELSE flash' = <<"", "">> /\ UNCHANGED attendance

\* the day a timestamp falls on, its time of day, and datetime.combine
TicksPerDay == 2

date(t) == (t - 1) \div TicksPerDay

time(t) == (t - 1) % TicksPerDay

combine(d, tod) == d * TicksPerDay + tod + 1

Dates == {date(t) : t \in 1..MaxTime}

\* dashboard, role owner, menu "Edit/Delete Attendance": Update of row i
t9_dashboard_update(i, ci, co) ==
    /\ variant = "trail9"
    /\ UNCHANGED <<variant, inflight, now, users, messages, sqlite_sequence, session>>
    /\ session.logged_in /\ session.role = "owner"
    /\ i \in 1..Len(attendance)
    /\ LET att_df == load_attendance
           row == att_df[i]
           new_in == combine(ci, time(row.check_in_time))
           new_out == combine(co, IF notna(row.check_out_time)
                                  THEN time(row.check_out_time) ELSE 0)
       IN  /\ new_in <= MaxTime /\ new_out <= MaxTime
           /\ save_attendance([att_df EXCEPT ![i].check_in_time = new_in,
                                             ![i].check_out_time = new_out])
    /\ flash' = <<"Updated!", "">>

t9_dashboard_delete(i) ==
    /\ variant = "trail9"
    /\ UNCHANGED <<variant, inflight, now, users, messages, sqlite_sequence, session>>
    /\ session.logged_in /\ session.role = "owner"
    /\ i \in 1..Len(attendance)
    /\ save_attendance(SeqFilter(load_attendance, (1..Len(attendance)) \ {i}))
    /\ flash' = <<"Deleted!", "">>

t9_dashboard_add_staff(uname, pwd) ==
    /\ variant = "trail9"
    /\ UNCHANGED <<variant, inflight, now, attendance, messages, sqlite_sequence, session>>
    /\ session.logged_in /\ session.role = "owner"
    /\ IF uname = "" \/ pwd = ""
       THEN flash' = <<"", "">> /\ UNCHANGED users
       ELSE IF uname \in usernames_in(load_users)
       THEN flash' = <<"Username exists!", "">> /\ UNCHANGED users
       ELSE /\ Len(load_users) < MaxUsers
            /\ save_users(Append(load_users,
                    [username |-> uname, password |-> pwd, role |-> "staff"]))
            /\ flash' = <<"Staff added!", uname>>

\* users[users["username"] != remove]; NaN != x is True for every x
remove_user_row(remove) ==
    /\ save_users(SeqFilter(load_users,
            SelectIdx(load_users, LAMBDA u : u.username = NaNCell
                                             \/ remove = NaNCell
                                             \/ u.username # remove)))
    /\ UNCHANGED <<attendance, messages>>

t9_dashboard_remove_staff(remove) ==
    /\ variant = "trail9"
    /\ UNCHANGED <<variant, inflight, now, sqlite_sequence, session>>
    /\ session.logged_in /\ session.role = "owner"
    /\ remove \in SeqRange([i \in 1..Len(staff_list) |-> staff_list[i].username])
    /\ remove_user_row(remove)
    /\ flash' = <<"Staff removed!", remove>>

t9_dashboard_give_warning(staff_warn, text) ==
    /\ variant = "trail9"
    /\ UNCHANGED <<variant, inflight, now, users, attendance, sqlite_sequence, session>>
    /\ session.logged_in /\ session.role = "owner"
    /\ staff_warn \in SeqRange([i \in 1..Len(staff_list) |-> staff_list[i].username])
    /\ IF text = ""
       THEN flash' = <<"", "">> /\ UNCHANGED messages
       ELSE /\ Len(messages) < MaxMsgs
            /\ messages' = Append(messages,
                    [username |-> IF staff_warn = NaNCell THEN "" ELSE staff_warn,
                     warning |-> text])
            /\ flash' = <<"Warning sent", "">>

\* what a QR image decodes to: nothing, or one text
Decoded9 == {<<>>} \cup {<<u>> : u \in Usernames \cup NAValues}

Init9 ==
    /\ variant = "trail9"
    /\ inflight = <<>>
    /\ users = <<default_owner>>
    /\ attendance = <<>>
    /\ messages = <<>>
    /\ sqlite_sequence = 0
    /\ session = LoggedOut
    /\ now = 1
    /\ flash = <<"", "">>

Next9 ==
    \/ \E u \in Usernames, p \in Passwords \cup {"owner123", "bad"} : t9_login_page(u, p)
    \/ \E p \in {"login", "qr_login"} : t9_goto(p)
    \/ \E d \in Decoded9 : t9_qr_login_page(d)
    \/ t9_logout
    \/ \E d \in Decoded9 : t9_dashboard_mark_attendance(d)
    \/ \E i \in 1..MaxRows, ci \in Dates, co \in Dates : t9_dashboard_update(i, ci, co)
    \/ \E i \in 1..MaxRows : t9_dashboard_delete(i)
    \/ \E u \in Usernames \cup NAValues, p \in Passwords : t9_dashboard_add_staff(u, p)
    \/ \E u \in Usernames \cup {NaNCell} : t9_dashboard_remove_staff(u)
    \/ \E u \in Usernames \cup {NaNCell}, w \in FormText : t9_dashboard_give_warning(u, w)
    \/ Tick

Spec9 == Init9 /\ [][Next9]_vars

(***************************************************************************)
(* trail4.py: Streamlit, users.json and attendance.csv.  The script is     *)
(* re-run from the top on every interaction, so each handler starts from   *)
(* load_data() and works on what the files hold.                           *)
(***************************************************************************)
PASSWORD_SALT == "a_unique_salt_for_your_app"

hash_password(password) == <<"sha256", password, PASSWORD_SALT>>

Times == {time(t) : t \in 1..MaxTime}

\* the username column as pd.read_csv types it (see read_csv)
username_column(rows, i) ==
    IF \A j \in 1..Len(rows) : rows[j].username \in Numeric
    THEN <<"int64", rows[i].username>>
    ELSE <<"str", rows[i].username>>

\* load_data: users.json with the owner account ensured
owner_account == [password |-> hash_password("owner_password"), role |-> "owner"]

\* load_data: attendance.csv through pd.read_csv(parse_dates=['date'])
t4_load_attendance ==
    [i \in 1..Len(attendance) |->
        [username |-> username_column(attendance, i),
         date |-> attendance[i].date,
         check_in_time |-> IF attendance[i].check_in_time = EmptyStr THEN NaN
                           ELSE attendance[i].check_in_time,
         is_present |-> attendance[i].is_present]]

\* save_attendance_data: dates as %Y-%m-%d, times as %H:%M:%S, NaN as ""
t4_save_attendance_data(df) ==
    attendance' =
        [i \in 1..Len(df) |->
            [username |-> df[i].username[2],
             date |-> df[i].date,
             check_in_time |-> IF df[i].check_in_time = NaN THEN EmptyStr
                               ELSE df[i].check_in_time,
             is_present |-> df[i].is_present]]

Unauthenticated ==
    [authenticated |-> FALSE, username |-> None, role |-> None, page |-> "login"]

staff_members == {u \in DOMAIN users : users[u].role = "staff"}

\* NAVIGATION: the page function that the script renders for the session
t4_page_shown ==
    IF ~session.authenticated THEN "login"
    ELSE IF session.page = "owner_dashboard" /\ session.role = "owner"
         THEN "owner_dashboard"
    ELSE IF session.page = "staff_dashboard" /\ session.role = "staff"
         THEN "staff_dashboard"
    ELSE IF session.page = "add_staff" /\ session.role = "owner" THEN "add_staff"
    ELSE IF session.page = "mark_attendance" /\ session.role = "owner"
         THEN "mark_attendance"
    ELSE "Access Denied."

t4_show_login_page(username, password) ==
    /\ variant = "trail4"
    /\ UNCHANGED <<variant, inflight, now, stores>>
    /\ t4_page_shown = "login"
    /\ IF /\ username # ""
          /\ username \in DOMAIN users
          /\ users[username].password = hash_password(password)
       THEN /\ session' = [authenticated |-> TRUE, username |-> username,
                           role |-> users[username].role,
                           page |-> IF users[username].role = "owner"
                                    THEN "owner_dashboard" ELSE "staff_dashboard"]
            /\ flash' = <<"Welcome", username>>
       ELSE /\ flash' = <<"Invalid username or password", "">>
            /\ UNCHANGED session

\* the sidebar and dashboard buttons that set st.session_state.page
t4_goto(page) ==
    /\ variant = "trail4"
    /\ UNCHANGED <<variant, inflight, now, stores>>
    /\ session.authenticated
    /\ IF session.role = "owner"
       THEN page \in {"owner_dashboard", "add_staff", "mark_attendance"}
       ELSE page = "staff_dashboard"
    /\ session' = [session EXCEPT !.page = page]
    /\ flash' = <<"", "">>

t4_show_add_staff_page(new_username, new_password) ==
    /\ variant = "trail4"
    /\ UNCHANGED <<variant, inflight, now, attendance, messages, sqlite_sequence>>
    /\ t4_page_shown = "add_staff"
    /\ IF new_username = "" \/ new_password = ""
       THEN /\ flash' = <<"Please provide both username and password.", "">>
            /\ UNCHANGED <<users, session>>
       ELSE IF new_username \in DOMAIN users
       THEN /\ flash' = <<"Username already exists!", new_username>>
            /\ UNCHANGED <<users, session>>
       ELSE /\ users' = [u \in DOMAIN users \cup {new_username} |->
                            IF u = new_username
                            THEN [password |-> hash_password(new_password),
                                  role |-> "staff"]
                            ELSE users[u]]
            /\ flash' = <<"added successfully!", new_username>>
            /\ session' = [session EXCEPT !.page = "owner_dashboard"]

\* (mask_user & mask_date).any() over the loaded frame
t4_has_marked_today(df, selected_staff, current_date) ==
    \E i \in 1..Len(df) :
        df[i].username = <<"str", selected_staff>> /\ df[i].date = current_date

t4_show_mark_attendance_page(selected_staff, mark_present_button) ==
    /\ variant = "trail4"
    /\ UNCHANGED <<variant, inflight, now, users, messages, sqlite_sequence>>
    /\ t4_page_shown = "mark_attendance"
    /\ selected_staff \in staff_members
    /\ LET df == t4_load_attendance
           current_date == date(now)
           is_present == mark_present_button
           check_in_str == IF is_present THEN time(now) ELSE EmptyStr
       IN  IF t4_has_marked_today(df, selected_staff, current_date)
           THEN /\ flash' = <<"has already been marked for today", selected_staff>>
                /\ UNCHANGED <<attendance, session>>
           ELSE /\ Len(df) < MaxRows
                /\ t4_save_attendance_data(Append(df,
                       [username |-> <<"str", selected_staff>>,
                        date |-> current_date,
                        check_in_time |-> check_in_str,
                        is_present |-> is_present]))
                /\ flash' = <<IF is_present THEN "marked as Present"
                              ELSE "marked as Absent", selected_staff>>
                /\ session' = [session EXCEPT !.page = "owner_dashboard"]

t4_perform_logout ==
    /\ variant = "trail4"
    /\ UNCHANGED <<variant, inflight, now, stores>>
    /\ session.authenticated
    /\ session' = Unauthenticated
    /\ flash' = <<"", "">>

Init4 ==
    /\ variant = "trail4"
    /\ inflight = <<>>
    /\ users = [u \in {"owner"} |-> owner_account]
    /\ attendance = <<>>
    /\ messages = <<>>
    /\ sqlite_sequence = 0
    /\ session = Unauthenticated
    /\ now = 1
    /\ flash = <<"", "">>

Next4 ==
    \/ \E u \in Usernames \cup {""}, p \in Passwords \cup {"owner_password"} :
          t4_show_login_page(u, p)
    \/ \E p \in {"owner_dashboard", "staff_dashboard", "add_staff", "mark_attendance"} :
          t4_goto(p)
    \/ \E u \in Usernames \cup {""}, p \in Passwords \cup {""} :
          t4_show_add_staff_page(u, p)
    \/ \E u \in Usernames, b \in BOOLEAN : t4_show_mark_attendance_page(u, b)
    \/ t4_perform_logout
    \/ Tick

Spec4 == Init4 /\ [][Next4]_vars

(***************************************************************************)
(* trial6.py: Streamlit, users.json and attendance.csv; the mark page      *)
(* edits the record of (staff, date) when it finds one.                    *)
(***************************************************************************)
\* load_data: attendance.csv through pd.read_csv(parse_dates=['date']).
\* The frame's index is 0, 1, 2, ...: row k of the frame is df[k + 1] here.
t6_load_attendance ==
    [i \in 1..Len(attendance) |->
        [username |-> username_column(attendance, i),
         date |-> attendance[i].date,
         check_in_time |-> IF attendance[i].check_in_time = EmptyStr THEN NaN
                           ELSE attendance[i].check_in_time,
         check_out_time |-> IF attendance[i].check_out_time = EmptyStr THEN NaN
                            ELSE attendance[i].check_out_time,
         is_present |-> attendance[i].is_present]]

t6_save_attendance_data(df) ==
    attendance' =
        [i \in 1..Len(df) |->
            [username |-> df[i].username[2],
             date |-> df[i].date,
             check_in_time |-> IF df[i].check_in_time = NaN THEN EmptyStr
                               ELSE df[i].check_in_time,
             check_out_time |-> IF df[i].check_out_time = NaN THEN EmptyStr
                                ELSE df[i].check_out_time,
             is_present |-> df[i].is_present]]

\* Navigation: the page function that the script renders for the session
t6_page_shown ==
    IF ~session.authenticated THEN "login"
    ELSE IF session.page \in {"owner_dashboard", "add_staff", "remove_staff",
                              "warnings", "mark_attendance"}
            /\ session.role = "owner"
         THEN session.page
    ELSE IF session.page = "staff_dashboard" /\ session.role = "staff"
         THEN "staff_dashboard"
    ELSE "nothing"

t6_show_login_page(username, password) ==
    /\ variant = "trial6"
    /\ UNCHANGED <<variant, inflight, now, stores>>
    /\ t6_page_shown = "login"
    /\ IF /\ username # ""
          /\ username \in DOMAIN users
          /\ users[username].password = hash_password(password)
       THEN /\ session' = [authenticated |-> TRUE, username |-> username,
                           role |-> users[username].role,
                           page |-> IF users[username].role = "owner"
                                    THEN "owner_dashboard" ELSE "staff_dashboard"]
            /\ flash' = <<"Welcome", username>>
       ELSE /\ flash' = <<"Invalid username or password", "">>
            /\ UNCHANGED session

t6_goto(page) ==
    /\ variant = "trial6"
    /\ UNCHANGED <<variant, inflight, now, stores>>
    /\ session.authenticated
    /\ IF session.role = "owner"
       THEN page \in {"owner_dashboard", "add_staff", "mark_attendance",
                      "remove_staff", "warnings"}
       ELSE page = "staff_dashboard"
    /\ session' = [session EXCEPT !.page = page]
    /\ flash' = <<"", "">>

t6_show_add_staff_page(new_username, new_password) ==
    /\ variant = "trial6"
    /\ UNCHANGED <<variant, inflight, now, attendance, messages, sqlite_sequence>>
    /\ t6_page_shown = "add_staff"
    /\ IF new_username = "" \/ new_password = ""
       THEN /\ flash' = <<"Please provide both username and password.", "">>
            /\ UNCHANGED <<users, session>>
       ELSE IF new_username \in DOMAIN users
       THEN /\ flash' = <<"Username already exists!", new_username>>
            /\ UNCHANGED <<users, session>>
       ELSE /\ users' = [u \in DOMAIN users \cup {new_username} |->
                            IF u = new_username
                            THEN [password |-> hash_password(new_password),
                                  role |-> "staff"]
                            ELSE users[u]]
            /\ flash' = <<"added successfully!", new_username>>
            /\ session' = [session EXCEPT !.page = "owner_dashboard"]

t6_show_remove_staff_page(selected_staff) ==
    /\ variant = "trial6"
    /\ UNCHANGED <<variant, inflight, now, attendance, messages, sqlite_sequence>>
    /\ t6_page_shown = "remove_staff"
    /\ selected_staff \in staff_members
    /\ users' = [u \in DOMAIN users \ {selected_staff} |-> users[u]]
    /\ flash' = <<"removed.", selected_staff>>
    /\ session' = [session EXCEPT !.page = "owner_dashboard"]

\* the warning is only displayed, nothing is stored
t6_show_warning_page(selected_staff, warning_text) ==
    /\ variant = "trial6"
    /\ UNCHANGED <<variant, inflight, now, stores, session>>
    /\ t6_page_shown = "warnings"
    /\ selected_staff \in staff_members
    /\ flash' = IF warning_text # "" THEN <<"Warning for", selected_staff>>
                ELSE <<"Please enter warning text.", "">>

\* attendance_df[mask_user & mask_date].index: index labels, from 0
t6_existing_index(df, selected_staff, selected_date) ==
    {i - 1 : i \in {j \in 1..Len(df) :
                        /\ df[j].username = <<"str", selected_staff>>
                        /\ df[j].date = selected_date}}

\* Index.any(): whether some element is truthy, i.e. some label is not 0
index_any(index) == \E k \in index : k # 0

Min(S) == CHOOSE m \in S : \A x \in S : m <= x

t6_show_mark_attendance_page(selected_staff, selected_date, check_in_time, check_out_time, is_present) ==
    /\ variant = "trial6"
    /\ UNCHANGED <<variant, inflight, now, users, messages, sqlite_sequence>>
    /\ t6_page_shown = "mark_attendance"
    /\ selected_staff \in staff_members
    /\ LET df == t6_load_attendance
           existing_index == t6_existing_index(df, selected_staff, selected_date)
       IN  IF index_any(existing_index)
           THEN /\ t6_save_attendance_data(
                      [df EXCEPT ![Min(existing_index) + 1] =
                          [@ EXCEPT !.check_in_time = check_in_time,
                                    !.check_out_time = check_out_time,
                                    !.is_present = is_present]])
                /\ flash' = <<"Attendance updated", selected_staff>>
           ELSE /\ Len(df) < MaxRows
                /\ t6_save_attendance_data(Append(df,
                       [username |-> <<"str", selected_staff>>,
                        date |-> selected_date,
                        check_in_time |-> check_in_time,
                        check_out_time |-> check_out_time,
                        is_present |-> is_present]))
                /\ flash' = <<"Attendance marked", selected_staff>>
    /\ session' = [session EXCEPT !.page = "owner_dashboard"]

t6_perform_logout ==
    /\ variant = "trial6"
    /\ UNCHANGED <<variant, inflight, now, stores>>
    /\ session.authenticated
    /\ session' = Unauthenticated
    /\ flash' = <<"", "">>

Init6 ==
    /\ variant = "trial6"
    /\ inflight = <<>>
    /\ users = [u \in {"owner"} |-> owner_account]
    /\ attendance = <<>>
    /\ messages = <<>>
    /\ sqlite_sequence = 0
    /\ session = Unauthenticated
    /\ now = 1
    /\ flash = <<"", "">>

Next6 ==
    \/ \E u \in Usernames \cup {""}, p \in Passwords \cup {"owner_password"} :
          t6_show_login_page(u, p)
    \/ \E p \in {"owner_dashboard", "staff_dashboard", "add_staff",
                 "mark_attendance", "remove_staff", "warnings"} : t6_goto(p)
    \/ \E u \in Usernames \cup {""}, p \in Passwords \cup {""} :
          t6_show_add_staff_page(u, p)
    \/ \E u \in Usernames : t6_show_remove_staff_page(u)
    \/ \E u \in Usernames, w \in FormText : t6_show_warning_page(u, w)
    \/ \E u \in Usernames, d \in Dates, ci \in Times, co \in Times, b \in BOOLEAN :
          t6_show_mark_attendance_page(u, d, ci, co, b)
    \/ t6_perform_logout
    \/ Tick

Spec6 == Init6 /\ [][Next6]_vars

(***************************************************************************)
(* trail8.py: Streamlit, users.json and attendance.csv read with           *)
(* dtype=str; mark, edit and delete pages for the owner.                   *)
(***************************************************************************)
\* str(bool(v)) as save_attendance_data writes is_present
str_bool(v) == IF v THEN "True" ELSE "False"

\* load_attendance_data: every cell a string (dtype=str), except that a
\* cell of NAValues is read as NaN; is_present mapped to a boolean
t8_load_attendance_data ==
    [i \in 1..Len(attendance) |->
        [username |-> IF attendance[i].username \in NAValues THEN NaNCell
                      ELSE attendance[i].username,
         date |-> attendance[i].date,
         check_in_time |-> IF attendance[i].check_in_time = EmptyStr THEN NaN
                           ELSE attendance[i].check_in_time,
         check_out_time |-> IF attendance[i].check_out_time = EmptyStr THEN NaN
                            ELSE attendance[i].check_out_time,
         is_present |-> attendance[i].is_present = "True"]]

\* save_attendance_data: to_csv writes a NaN username as an empty cell
t8_save_attendance_data(df) ==
    attendance' =
        [i \in 1..Len(df) |->
            [username |-> IF df[i].username = NaNCell THEN "" ELSE df[i].username,
             date |-> df[i].date,
             check_in_time |-> IF df[i].check_in_time = NaN THEN EmptyStr
                               ELSE df[i].check_in_time,
             check_out_time |-> IF df[i].check_out_time = NaN THEN EmptyStr
                                ELSE df[i].check_out_time,
             is_present |-> str_bool(df[i].is_present)]]

t8_LoggedOut ==
    [logged_in |-> FALSE, role |-> None, username |-> None,
     owner_action |-> "view_all"]

\* login(username, password)
t8_login_valid(username, password) ==
    username \in DOMAIN users /\ users[username].password = hash_password(password)

\* main: what the script renders for the session
t8_page_shown ==
    IF ~session.logged_in THEN "login"
    ELSE IF session.role = "owner" THEN session.owner_action
    ELSE IF session.role = "staff" THEN "staff_dashboard"
    ELSE "nothing"

t8_main_login(username, password) ==
    /\ variant = "trail8"
    /\ UNCHANGED <<variant, inflight, now, stores>>
    /\ t8_page_shown = "login"
    /\ IF t8_login_valid(username, password)
       THEN /\ session' = [session EXCEPT !.logged_in = TRUE,
                                          !.role = users[username].role,
                                          !.username = username]
            /\ flash' = <<"Welcome", username>>
       ELSE /\ flash' = <<"Invalid login", "">>
            /\ UNCHANGED session

\* show_owner_dashboard: the six buttons that choose the owner's page
t8_show_owner_dashboard(action) ==
    /\ variant = "trail8"
    /\ UNCHANGED <<variant, inflight, now, stores>>
    /\ session.logged_in /\ session.role = "owner"
    /\ session' = [session EXCEPT !.owner_action = action]
    /\ flash' = <<"", "">>

t8_add_staff(new_username, new_password) ==
    /\ variant = "trail8"
    /\ UNCHANGED <<variant, inflight, now, attendance, messages, sqlite_sequence>>
    /\ t8_page_shown = "add_staff"
    /\ IF new_username = ""
       THEN flash' = <<"Enter a username", "">> /\ UNCHANGED <<users, session>>
       ELSE IF new_username \in DOMAIN users
       THEN /\ flash' = <<"User already exists", new_username>>
            /\ UNCHANGED <<users, session>>
       ELSE /\ users' = [u \in DOMAIN users \cup {new_username} |->
                            IF u = new_username
                            THEN [password |-> hash_password(new_password),
                                  role |-> "staff"]
                            ELSE users[u]]
            /\ flash' = <<"Staff added!", new_username>>
            /\ session' = [session EXCEPT !.owner_action = "view_all"]

t8_remove_staff(selected) ==
    /\ variant = "trail8"
    /\ UNCHANGED <<variant, inflight, now, attendance, messages, sqlite_sequence>>
    /\ t8_page_shown = "remove_staff"
    /\ selected \in staff_members
    /\ users' = [u \in DOMAIN users \ {selected} |-> users[u]]
    /\ flash' = <<"Removed staff", selected>>
    /\ session' = [session EXCEPT !.owner_action = "view_all"]

\* attendance_df[mask_user & mask_date].index.tolist()
t8_existing_indices(df, selected_staff, selected_date) ==
    {i \in 1..Len(df) : df[i].username = selected_staff /\ df[i].date = selected_date}

t8_mark_attendance_page(selected_staff, selected_date, check_in_time, check_out_time, is_present) ==
    /\ variant = "trail8"
    /\ UNCHANGED <<variant, inflight, now, users, messages, sqlite_sequence>>
    /\ t8_page_shown = "mark_attendance"
    /\ selected_staff \in staff_members
    /\ LET df == t8_load_attendance_data
           existing_indices == t8_existing_indices(df, selected_staff, selected_date)
       IN  IF Cardinality(existing_indices) > 0
           THEN /\ t8_save_attendance_data(
                      [df EXCEPT ![Min(existing_indices)] =
                          [@ EXCEPT !.check_in_time = check_in_time,
                                    !.check_out_time = check_out_time,
                                    !.is_present = is_present]])
                /\ flash' = <<"Updated attendance", selected_staff>>
           ELSE /\ Len(df) < MaxRows
                /\ t8_save_attendance_data(Append(df,
                       [username |-> selected_staff,
                        date |-> selected_date,
                        check_in_time |-> check_in_time,
                        check_out_time |-> check_out_time,
                        is_present |-> is_present]))
                /\ flash' = <<"Marked attendance", selected_staff>>
    /\ session' = [session EXCEPT !.owner_action = "view_all"]

t8_edit_attendance_page(idx, new_check_in, new_check_out, new_is_present) ==
    /\ variant = "trail8"
    /\ UNCHANGED <<variant, inflight, now, users, messages, sqlite_sequence>>
    /\ t8_page_shown = "edit_attendance"
    /\ LET df == t8_load_attendance_data
       IN  /\ idx \in 1..Len(df)
           /\ t8_save_attendance_data(
                 [df EXCEPT ![idx] = [@ EXCEPT !.check_in_time = new_check_in,
                                               !.check_out_time = new_check_out,
                                               !.is_present = new_is_present]])
    /\ flash' = <<"Record updated", "">>
    /\ session' = [session EXCEPT !.owner_action = "view_all"]

t8_delete_attendance_page(delete_indices) ==
    /\ variant = "trail8"
    /\ UNCHANGED <<variant, inflight, now, users, messages, sqlite_sequence>>
    /\ t8_page_shown = "delete_attendance"
    /\ LET df == t8_load_attendance_data
       IN  /\ delete_indices # {}
           /\ delete_indices \subseteq 1..Len(df)
           /\ t8_save_attendance_data(SeqFilter(df, (1..Len(df)) \ delete_indices))
    /\ flash' = <<"Selected records deleted", "">>
    /\ session' = [session EXCEPT !.owner_action = "view_all"]

\* the Logout button of the owner's and of the staff dashboard
t8_logout ==
    /\ variant = "trail8"
    /\ UNCHANGED <<variant, inflight, now, stores>>
    /\ session.logged_in
    /\ session' = IF session.role = "owner"
                  THEN [session EXCEPT !.logged_in = FALSE, !.owner_action = None]
                  ELSE [session EXCEPT !.logged_in = FALSE]
    /\ flash' = <<"", "">>

Init8 ==
    /\ variant = "trail8"
    /\ inflight = <<>>
    /\ users = [u \in {"owner"} |-> owner_account]
    /\ attendance = <<>>
    /\ messages = <<>>
    /\ sqlite_sequence = 0
    /\ session = t8_LoggedOut
    /\ now = 1
    /\ flash = <<"", "">>

Next8 ==
    \/ \E u \in Usernames \cup {""}, p \in Passwords \cup {"owner_password"} :
          t8_main_login(u, p)
    \/ \E a \in {"add_staff", "remove_staff", "mark_attendance", "edit_attendance",
                 "delete_attendance", "warnings"} : t8_show_owner_dashboard(a)
    \/ \E u \in Usernames \cup {""}, p \in Passwords \cup {""} : t8_add_staff(u, p)
    \/ \E u \in Usernames : t8_remove_staff(u)
    \/ \E u \in Usernames, d \in Dates, ci \in Times, co \in Times, b \in BOOLEAN :
          t8_mark_attendance_page(u, d, ci, co, b)
    \/ \E i \in 1..MaxRows, ci \in Times, co \in Times, b \in BOOLEAN :
          t8_edit_attendance_page(i, ci, co, b)
    \/ \E s \in SUBSET (1..MaxRows) : t8_delete_attendance_page(s)
    \/ t8_logout
    \/ Tick

Spec8 == Init8 /\ [][Next8]_vars

(***************************************************************************)
(* trail12.py and trail9.py side by side: the run is one or the other.     *)
(***************************************************************************)
Init12_9 == Init12 \/ Init9

Next12_9 == Next12 \/ Next9

Spec12_9 == Init12_9 /\ [][Next12_9]_vars

(***************************************************************************)
(* Properties of the toggle (QR scan) and of the stores it works on.       *)
(***************************************************************************)
\* the attendance rows of a username, and those still open
rows_of(u) ==
    IF variant = "trail12"
    THEN {i \in 1..Len(attendance) :
            /\ attendance[i].user_id \in DOMAIN users
            /\ users[attendance[i].user_id].username = u}
    ELSE {i \in 1..Len(attendance) : attendance[i].username = u}

row_open(i) ==
    IF variant = "trail12" THEN attendance[i].check_out = NULL
    ELSE attendance[i].check_out_time = EmptyStr

is_open(u) == \E i \in rows_of(u) : row_open(i)

is_staff(u) ==
    IF variant = "trail12"
    THEN \E i \in DOMAIN users : users[i].username = u /\ users[i].role = "staff"
    ELSE \E i \in 1..Len(users) : users[i].username = u /\ users[i].role = "staff"

\* one toggle call for the staff member u: the owner scans u's QR code
toggle(u) ==
    IF variant = "trail12"
    THEN \E i \in DOMAIN users :
            /\ users[i].username = u
            /\ "user_id" \in DOMAIN session /\ session.role = "owner"
            /\ t12_scan_qr(qr_data(i))
    ELSE t9_dashboard_mark_attendance(<<u>>)

checked_in(u) ==
    flash' = <<IF variant = "trail12" THEN "Checked IN" ELSE "checked in", u>>

checked_out(u) ==
    flash' = <<IF variant = "trail12" THEN "Checked OUT" ELSE "checked out", u>>

\* C1: every toggle call for a staff member flips that member between CLOSED
\* and OPEN, and reports "checked in" when it opens a record and "checked out"
\* when it closes one; so, starting with no record, N consecutive calls
\* leave the member OPEN iff N is odd and the reports alternate.
C1_ToggleAlternation ==
    [][\A u \in Usernames \cup Usernames12 :
          (is_staff(u) /\ toggle(u)) =>
              /\ is_open(u)' = ~is_open(u)
              /\ IF is_open(u)' THEN checked_in(u) ELSE checked_out(u)]_vars

\* C2: after any sequence of toggle calls, run one after the other, at most
\* one attendance record of a staff member has no check-out time.
C2_AtMostOneOpen ==
    \A u \in Usernames \cup Usernames12 :
        is_staff(u) => Cardinality({i \in rows_of(u) : row_open(i)}) <= 1

\* C3: a check-out toggle leaves every record that was already closed as it
\* was: the check-in and check-out times of closed records never change.
C3_CheckoutKeepsClosedRecords ==
    [][\A u \in Usernames \cup Usernames12 :
          (is_staff(u) /\ toggle(u) /\ checked_out(u)) =>
              \A i \in 1..Len(attendance) :
                  ~row_open(i) => attendance'[i] = attendance[i]]_vars

\* C6: when a user is deleted, no attendance record and no message or
\* warning that refers to that user is left.
C6_CascadeDelete ==
    [][CASE variant = "trail12" ->
              \A id \in DOMAIN users \ DOMAIN users' :
                  /\ \A i \in 1..Len(attendance') : attendance'[i].user_id # id
                  /\ \A i \in 1..Len(messages') : messages'[i].to_user_id # id
         [] variant = "trail9" ->
              \A u \in usernames_in(users) \ usernames_in(users') :
                  /\ \A i \in 1..Len(attendance') : attendance'[i].username # u
                  /\ \A i \in 1..Len(messages') : messages'[i].username # u
         [] OTHER ->
              \A u \in DOMAIN users \ DOMAIN users' :
                  \A i \in 1..Len(attendance') : attendance'[i].username # u]_vars

\* C8: a toggle whose token names no user, or a user who is not staff, is
\* rejected and leaves the attendance records as they were.
C8_UnauthorizedSubjectRejected ==
    [][/\ \A q \in {qr_data(i) : i \in 1..MaxUserId + 1} :
             (t12_scan_qr(q) /\ ~is_staff_id(py_int(after_colon(q))))
                 => attendance' = attendance
       /\ \A u \in Usernames :
             (t9_dashboard_mark_attendance(<<u>>) /\ ~is_staff(u))
                 => attendance' = attendance]_vars

\* payloads that are not "ATTEND:" followed by an integer
MalformedQR ==
    { ATTEND \o <<"x">>, ATTEND, <<"2">>, <<"U", "S", "E", "R", ":", "2">> }

\* C9: a toggle whose QR payload is malformed (trail12: no "ATTEND:" prefix
\* or no integer after it; trail9: an image that decodes to nothing) is
\* aborted and leaves every attendance record as it was.
C9_MalformedTokenAborted ==
    [][/\ \A q \in MalformedQR :
             t12_scan_qr(q) =>
                 /\ attendance' = attendance
                 /\ flash'[1] \in {"Invalid QR value.", "login", "Access denied."}
       /\ t9_dashboard_mark_attendance(<<>>) =>
             (attendance' = attendance /\ flash'[1] = "")]_vars

C9_Witness ==
    /\ variant = "trail12"
    /\ flash[1] = "Invalid QR value."
    /\ attendance # <<>>

(***************************************************************************)
(* Properties of the manual mark, the edit and the access gate.            *)
(***************************************************************************)
\* the rows that hold the record of (user, date), in the variants whose
\* rows carry a date
records_of(rows, u, d) ==
    {i \in 1..Len(rows) : rows[i].username = u /\ rows[i].date = d}

\* C4: after any sequence of manual marks the ledger holds at most one
\* record for each (user, date): a mark for a pair that already has a
\* record never adds a second one, also when that record is the first row.
C4_OneRecordPerUserDate ==
    variant \in {"trial6", "trail8", "trail4"} =>
        \A u \in Usernames, d \in Dates :
            Cardinality(records_of(attendance, u, d)) <= 1

\* C5: a manual mark is an upsert: after mark(user, date, present) there is a
\* record for (user, date), every such record carries the values of this
\* mark, and a record is added only when there was none before.
C5_ManualMarkIsUpsert ==
    [][/\ \A u \in Usernames, b \in BOOLEAN :
             t4_show_mark_attendance_page(u, b) =>
                 /\ records_of(attendance', u, date(now)) # {}
                 /\ \A i \in records_of(attendance', u, date(now)) :
                       /\ attendance'[i].is_present = b
                       /\ attendance'[i].check_in_time =
                              IF b THEN time(now) ELSE EmptyStr
                 /\ Len(attendance') =
                       IF records_of(attendance, u, date(now)) # {}
                       THEN Len(attendance) ELSE Len(attendance) + 1
       /\ \A u \in Usernames, d \in Dates, ci \in Times, co \in Times, b \in BOOLEAN :
             t8_mark_attendance_page(u, d, ci, co, b) =>
                 /\ records_of(attendance', u, d) # {}
                 /\ \A i \in records_of(attendance', u, d) :
                       /\ attendance'[i].is_present = str_bool(b)
                       /\ attendance'[i].check_in_time = ci
                       /\ attendance'[i].check_out_time = co
                 /\ Len(attendance') =
                       IF records_of(attendance, u, d) # {}
                       THEN Len(attendance) ELSE Len(attendance) + 1]_vars

\* C10: an edit of an attendance record whose new check-out is earlier than
\* its new check-in is refused as InvalidTimeRange and changes no record.
C10_EditTimeRangeChecked ==
    [][/\ \A i \in 1..MaxRows, ci \in Times, co \in Times, b \in BOOLEAN :
             (t8_edit_attendance_page(i, ci, co, b) /\ co < ci) =>
                 (attendance' = attendance /\ flash'[1] = "InvalidTimeRange")
       /\ \A i \in 1..MaxRows, ci \in Dates, co \in Dates :
             (/\ t9_dashboard_update(i, ci, co)
              /\ attendance'[i].check_out_time < attendance'[i].check_in_time) =>
                 (attendance' = attendance /\ flash'[1] = "InvalidTimeRange")]_vars

(***************************************************************************)
(* trail12.py, trail4.py and trail8.py side by side.                       *)
(***************************************************************************)
Init12_4_8 == Init12 \/ Init4 \/ Init8

Next12_4_8 == Next12 \/ Next4 \/ Next8

Spec12_4_8 == Init12_4_8 /\ [][Next12_4_8]_vars

\* the session is authenticated with role owner
owner_session ==
    CASE variant = "trail12" -> "user_id" \in DOMAIN session /\ session.role = "owner"
      [] variant = "trail4" -> session.authenticated /\ session.role = "owner"
      [] variant = "trail8" -> session.logged_in /\ session.role = "owner"

\* the first registration, open to anyone while no owner exists
bootstrap ==
    /\ variant = "trail12"
    /\ owner_count = 0
    /\ \E u \in {"owner", ""}, p \in Passwords : t12_register_owner(u, p)

denied == flash'[1] \in {"login", "Access denied."} /\ UNCHANGED stores

\* C7: users, attendance records and messages change only in a step taken by
\* a session authenticated with role owner (the first registration apart),
\* and an owner-only request from any other session is answered with the
\* login redirect or "Access denied." and changes nothing.
C7_AccessGate ==
    [][/\ stores' # stores => (owner_session \/ bootstrap)
       /\ (variant = "trail12" /\ ~owner_session) =>
             /\ \A q \in QRValues : t12_scan_qr(q) => denied
             /\ \A u \in Usernames12 \cup {""}, p \in Passwords :
                   t12_manage_staff_add(u, p) => denied
             /\ \A i \in 1..MaxUserId + 1 :
                   /\ t12_manage_staff_delete(i) => denied
                   /\ t12_owner_mark_attendance(i) => denied
                   /\ \A b \in FormText : t12_send_message(i, b) => denied]_vars

C7_Witness ==
    /\ variant = "trail12"
    /\ "user_id" \in DOMAIN session
    /\ session.role = "staff"
    /\ flash[1] = "Access denied."
    /\ attendance # <<>>

(***************************************************************************)
(* Properties of the stored records.                                       *)
(***************************************************************************)
\* C11: every attendance record has no check-out, or a check-out that is not
\* earlier than its check-in, after any sequence of toggles, marks and edits.
C11_TimeOrder ==
    \A i \in 1..Len(attendance) :
        CASE variant = "trail12" ->
               \/ attendance[i].check_out = NULL
               \/ attendance[i].check_out >= attendance[i].check_in
          [] variant \in {"trail9", "trail8", "trial6"} ->
               \/ attendance[i].check_out_time = EmptyStr
               \/ attendance[i].check_in_time = EmptyStr
               \/ attendance[i].check_out_time >= attendance[i].check_in_time
          [] OTHER -> TRUE

(***************************************************************************)
(* trail12.py under concurrent requests.  app.run starts the development   *)
(* server, which serves every request in a thread of its own, and every    *)
(* handler opens a connection of its own (get_db).  A SELECT opens no      *)
(* transaction, so a handler that reads and then writes can be overtaken   *)
(* between the two statements.  Such a handler is split at that point:     *)
(* the first step records what the request has read in inflight, the       *)
(* second step writes from it.  Requests that are answered before their    *)
(* write, and requests that are not overtaken, are the one-step actions    *)
(* above.  send_message reads nothing before its INSERT and touches        *)
(* neither users nor attendance; it is left to Spec12.                     *)
(***************************************************************************)
MaxInflight == 1

drop(s, k) == [i \in 1..Len(s) - 1 |-> IF i < k THEN s[i] ELSE s[i + 1]]

\* scan_qr lines 389-404, owner_mark_attendance lines 438-451: the user row,
\* now and open_row as the request has fetched them
check_in_or_out_select(user_id) ==
    /\ Len(inflight) < MaxInflight
    /\ \E open_row \in IF open_rows(user_id) = {} THEN {NULL}
                       ELSE {attendance[i].id : i \in latest_open_rows(user_id)} :
           inflight' = Append(inflight,
               [route |-> "check_in_or_out", user_id |-> user_id,
                username |-> users[user_id].username, now |-> now,
                open_row |-> open_row])

\* scan_qr lines 406-415, owner_mark_attendance lines 453-462
check_in_or_out_commit(k) ==
    /\ variant = "trail12"
    /\ k \in 1..Len(inflight)
    /\ inflight[k].route = "check_in_or_out"
    /\ UNCHANGED <<variant, now>>
    /\ UNCHANGED <<users, messages, session>>
    /\ inflight' = drop(inflight, k)
    /\ IF inflight[k].open_row # NULL
       THEN /\ attendance' =
                  [i \in 1..Len(attendance) |->
                      IF attendance[i].id = inflight[k].open_row
                      THEN [attendance[i] EXCEPT !.check_out = inflight[k].now]
                      ELSE attendance[i]]
            /\ UNCHANGED sqlite_sequence
            /\ flash' = <<"Checked OUT", inflight[k].username>>
       ELSE /\ insert_attendance(inflight[k].user_id, inflight[k].now)
            /\ flash' = <<"Checked IN", inflight[k].username>>

t12_scan_qr_select(qr_value) ==
    /\ variant = "trail12"
    /\ UNCHANGED <<variant, now>>
    /\ UNCHANGED <<stores, session, flash>>
    /\ login_required("owner") = "ok"
    /\ ~qr_invalid(qr_value)
    /\ is_staff_id(py_int(after_colon(strip(qr_value))))
    /\ check_in_or_out_select(py_int(after_colon(strip(qr_value))))

t12_owner_mark_attendance_select(staff_id) ==
    /\ variant = "trail12"
    /\ UNCHANGED <<variant, now>>
    /\ UNCHANGED <<stores, session, flash>>
    /\ login_required("owner") = "ok"
    /\ staff_id # 0
    /\ is_staff_id(staff_id)
    /\ check_in_or_out_select(staff_id)

\* register_owner lines 141-156: the request has counted no owner and has
\* a username and a password
t12_register_owner_count(username, password) ==
    /\ variant = "trail12"
    /\ UNCHANGED <<variant, now>>
    /\ UNCHANGED <<stores, session, flash>>
    /\ owner_count = 0
    /\ username # "" /\ password # ""
    /\ Len(inflight) < MaxInflight
    /\ inflight' = Append(inflight,
           [route |-> "register_owner", username |-> username,
            password |-> password])

\* register_owner lines 158-175
t12_register_owner_insert(k) ==
    /\ variant = "trail12"
    /\ k \in 1..Len(inflight)
    /\ inflight[k].route = "register_owner"
    /\ UNCHANGED <<variant, now>>
    /\ UNCHANGED <<attendance, messages, session>>
    /\ inflight' = drop(inflight, k)
    /\ IF username_taken(inflight[k].username)
       THEN /\ flash' = <<"Username already exists.", "">>
            /\ UNCHANGED <<users, sqlite_sequence>>
       ELSE /\ insert_user(inflight[k].username, inflight[k].password, "owner")
            /\ flash' = <<"Owner created. Please log in.", "">>

Next12c ==
    \/ \E u \in {"owner", ""}, p \in Passwords : t12_register_owner(u, p)
    \/ \E u \in Usernames12, p \in Passwords \cup {"bad"} : t12_login(u, p)
    \/ t12_logout
    \/ \E u \in Usernames12 \cup {""}, p \in Passwords : t12_manage_staff_add(u, p)
    \/ \E i \in 1..MaxUserId : t12_manage_staff_delete(i)
    \/ \E q \in QRValues : t12_scan_qr(q)
    \/ \E i \in 0..MaxUserId : t12_owner_mark_attendance(i)
    \/ Tick
    \/ \E q \in QRValues : t12_scan_qr_select(q)
    \/ \E i \in 1..MaxUserId : t12_owner_mark_attendance_select(i)
    \/ \E k \in 1..MaxInflight : check_in_or_out_commit(k)
    \/ \E u \in {"owner", "7"}, p \in Passwords : t12_register_owner_count(u, p)
    \/ \E k \in 1..MaxInflight : t12_register_owner_insert(k)

Spec12c == Init12 /\ [][Next12c]_vars

\* C12: a user has at most one open record (no check-out) in every reachable
\* state, also when two toggle requests for the same user are interleaved so
\* that both read the open record before either of them writes.
C12_AtMostOneOpenInterleaved ==
    variant = "trail12" =>
        \A u \in 1..MaxUserId : Cardinality(open_rows(u)) <= 1

\* C13: at most one user has the role owner in every reachable state, also
\* when two register_owner requests with different usernames are served
\* concurrently and each counts the owners before either has inserted.
C13_SingleOwner ==
    variant = "trail12" => owner_count <= 1

(***************************************************************************)
(* Properties of the login and of the stored credentials.                  *)
(***************************************************************************)
\* the passwords typed at a login form
LoginPasswords == Passwords \cup {"owner123", "owner_password", "bad"}

\* C14: a login that fails gets the same answer, the same message and an
\* unchanged session, whether the username does not exist or the username
\* exists and the password is wrong.
C14_AuthFailureIndistinguishable ==
    [][\A u \in Usernames \cup Usernames12 \cup {""}, p \in LoginPasswords :
          /\ (t12_login(u, p) /\ flash'[1] # "dashboard") =>
                (flash' = <<"Invalid username or password.", "">> /\ session' = session)
          /\ (t9_login_page(u, p) /\ flash'[1] # "dashboard") =>
                (flash' = <<"Invalid credentials", "">> /\ session' = session)
          /\ (t4_show_login_page(u, p) /\ flash'[1] # "Welcome") =>
                (flash' = <<"Invalid username or password", "">> /\ session' = session)]_vars

\* C15: no stored credential is the password itself: every stored value is
\* the hash of a password, for the default owner and for the staff an owner
\* creates as for everyone else.
C15_NoPlaintextPassword ==
    CASE variant = "trail12" ->
           \A i \in DOMAIN users :
               \E p \in LoginPasswords :
                   users[i].password_hash = generate_password_hash(p)
      [] variant = "trail9" ->
           \A i \in 1..Len(users) : users[i].password \notin LoginPasswords
      [] OTHER ->
           \A u \in DOMAIN users :
               \E p \in LoginPasswords \cup {""} :
                   users[u].password = hash_password(p)

\* a user with this username is in the store
user_exists(username) ==
    CASE variant = "trail12" -> username_taken(username)
      [] variant = "trail9" -> \E i \in 1..Len(users) : users[i].username = username
      [] OTHER -> username \in DOMAIN users

\* no two users carry the same username (users.json is keyed by username)
usernames_unique ==
    CASE variant = "trail12" ->
           \A i, j \in DOMAIN users : users[i].username = users[j].username => i = j
      [] variant = "trail9" ->
           \A i, j \in 1..Len(users) : users[i].username = users[j].username => i = j
      [] OTHER -> TRUE

\* C16: creating a user whose username is already in the store fails with
\* the duplicate-username message and leaves the user store as it was, and
\* after any sequence of creations and deletions no two users share a
\* username.
C16_DuplicateUsernameRefused ==
    [][/\ \A u \in Usernames \cup Usernames12 \cup {"NA"}, p \in Passwords :
             /\ (t12_manage_staff_add(u, p) /\ user_exists(u)) =>
                   /\ users' = users
                   /\ flash'[1] \in {"Username already exists.", "login", "Access denied."}
             /\ (t9_dashboard_add_staff(u, p) /\ user_exists(u)) =>
                   (users' = users /\ flash'[1] = "Username exists!")
             /\ (t4_show_add_staff_page(u, p) /\ user_exists(u)) =>
                   (users' = users /\ flash'[1] = "Username already exists!")
       /\ usernames_unique']_vars

(***************************************************************************)
(* The pages a staff member reads.                                         *)
(***************************************************************************)
\* the rows of a page as a bag: ORDER BY and sort_values leave the order of
\* rows with equal keys open, so pages are compared without their order
bag_of(s) == [x \in SeqRange(s) |-> Cardinality({i \in 1..Len(s) : s[i] = x})]

\* strftime of a timestamp: its day and its time of day
strftime(t) == <<date(t), time(t)>>

\* trail12.py staff_dashboard: logs (LIMIT 30 is above MaxRows); each row is
\* kept with the user_id it was selected by
t12_staff_dashboard(user_id) ==
    LET logs == SeqFilter(attendance,
                    {i \in 1..Len(attendance) : attendance[i].user_id = user_id})
    IN  bag_of([k \in 1..Len(logs) |->
                   [user |-> logs[k].user_id,
                    cells |-> <<logs[k].check_in, logs[k].check_out>>]])

\* trail9.py dashboard, role staff, menu "Attendance History"
t9_dashboard_attendance_history(username) ==
    LET df == load_attendance
        records == SeqFilter(df, user_records(df, username))
    IN  bag_of([k \in 1..Len(records) |->
                   [user |-> records[k].username[2],
                    cells |-> <<strftime(records[k].check_in_time),
                                IF notna(records[k].check_out_time)
                                THEN strftime(records[k].check_out_time)
                                ELSE <<>> >>]])

\* trail4.py show_staff_dashboard
t4_show_staff_dashboard(username) ==
    LET df == t4_load_attendance
        staff_attendance ==
            SeqFilter(df, {i \in 1..Len(df) : df[i].username = <<"str", username>>})
    IN  bag_of([k \in 1..Len(staff_attendance) |->
                   [user |-> staff_attendance[k].username[2],
                    cells |-> <<staff_attendance[k].date,
                                IF notna(staff_attendance[k].check_in_time)
                                THEN <<staff_attendance[k].check_in_time>>
                                ELSE <<>>,
                                IF staff_attendance[k].is_present
                                THEN "Present" ELSE "Absent">>]])

\* the attendance page shown to the staff member u
staff_view(u) ==
    CASE variant = "trail12" -> t12_staff_dashboard(u)
      [] variant = "trail9" -> t9_dashboard_attendance_history(u)
      [] variant = "trail4" -> t4_show_staff_dashboard(u)

\* the stored attendance records of u
own_records(u) ==
    SeqFilter(attendance,
        {i \in 1..Len(attendance) :
            IF variant = "trail12" THEN attendance[i].user_id = u
            ELSE attendance[i].username = u})

\* the users a staff page can be asked for
Subjects == IF variant = "trail12" THEN 1..MaxUserId ELSE Usernames

\* C17: the attendance page of a staff member holds only records of that
\* member, and it is the same in two ledger states that differ only in the
\* records of other users.
C17_StaffReadIsolation ==
    [][(variant \in {"trail12", "trail9", "trail4"}) =>
          \A u \in Subjects :
              /\ \A x \in DOMAIN staff_view(u) : x.user = u
              /\ (own_records(u))' = own_records(u) =>
                     (staff_view(u))' = staff_view(u)]_vars

\* C18: a record is marked present exactly when it holds a check-in time; a
\* record marked absent holds no check-in time (and no check-out time).
C18_PresentIffCheckIn ==
    \A i \in 1..Len(attendance) :
        CASE variant = "trail4" ->
               attendance[i].is_present <=> attendance[i].check_in_time # EmptyStr
          [] variant = "trail8" ->
               /\ attendance[i].is_present = str_bool(TRUE)
                     <=> attendance[i].check_in_time # EmptyStr
               /\ attendance[i].is_present = str_bool(FALSE)
                     => attendance[i].check_out_time = EmptyStr
          [] OTHER -> TRUE

\* the open records of a user of trail9.py, as rows of attendance.csv
t9_open_rows(username) ==
    {i \in 1..Len(attendance) :
        attendance[i].username = username /\ attendance[i].check_out_time = EmptyStr}

\* the open record of a trail12.py user that was created last
newest_open_row(user_id) ==
    CHOOSE i \in open_rows(user_id) :
        \A j \in open_rows(user_id) : attendance[j].id <= attendance[i].id

\* C19: a toggle for a user who has more than one open record raises no
\* error, closes exactly the open record that was created last and leaves
\* the other open records open.
C19_ClosesNewestOpenRecord ==
    [][/\ \A u \in 1..MaxUserId :
             (/\ t12_scan_qr(qr_data(u)) \/ t12_owner_mark_attendance(u)
              /\ login_required("owner") = "ok"
              /\ is_staff_id(u)
              /\ Cardinality(open_rows(u)) > 1) =>
                 /\ flash'[1] = "Checked OUT"
                 /\ attendance' =
                       [attendance EXCEPT ![newest_open_row(u)].check_out = now]
       /\ \A u \in Usernames :
             (/\ t9_dashboard_mark_attendance(<<u>>)
              /\ Cardinality(t9_open_rows(u)) > 1) =>
                 /\ flash'[1] \in {"checked in", "checked out"}
                 /\ attendance' =
                       [attendance EXCEPT ![Max(t9_open_rows(u))].check_out_time = now]]_vars

(***************************************************************************)
(* trail12.py: the attendance table of the owner dashboard and its export  *)
(* as a CSV file.  Texts are sequences of characters; DQUOTE, CR and LF    *)
(* are the double quote, the carriage return and the line feed.            *)
(***************************************************************************)
DQUOTE == "dquote"

CR == "cr"

LF == "lf"

\* the characters of the texts that reach the export
chars(str) ==
    CASE str = "owner" -> <<"o", "w", "n", "e", "r">>
      [] str = "staff" -> <<"s", "t", "a", "f", "f">>
      [] str = "7" -> <<"7">>
      [] str = "a,'b" -> <<"a", ",", DQUOTE, "b">>
      [] str = "username" -> <<"u", "s", "e", "r", "n", "a", "m", "e">>
      [] str = "role" -> <<"r", "o", "l", "e">>
      [] str = "check_in" -> <<"c", "h", "e", "c", "k", "_", "i", "n">>
      [] str = "check_out" -> <<"c", "h", "e", "c", "k", "_", "o", "u", "t">>
      [] str = "" -> <<>>

digit(n) == CHOOSE c \in Digits : DigitVal(c) = n

\* datetime.now().strftime("%Y-%m-%d %H:%M:%S"): the day, a blank, the time
strftime_iso(t) == <<digit(date(t)), " ", digit(time(t))>>

\* the dates a filter field can hold: none, a day with records, a later day
FilterDates == {<<>>} \cup {<<digit(d)>> : d \in Dates \cup {Max(Dates) + 1}}

\* substr(a.check_in,1,10) >= ? and <= ?, on the texts
in_range(check_in, from_date, to_date) ==
    /\ from_date # <<>> => DigitVal(strftime_iso(check_in)[1]) >= DigitVal(from_date[1])
    /\ to_date # <<>> => DigitVal(strftime_iso(check_in)[1]) <= DigitVal(to_date[1])

\* FROM attendance a JOIN users u ON u.id = a.user_id WHERE ...
joined(from_date, to_date) ==
    SeqFilter(attendance,
        {i \in 1..Len(attendance) :
            /\ attendance[i].user_id \in DOMAIN users
            /\ in_range(attendance[i].check_in, from_date, to_date)})

\* ORDER BY a.check_in DESC; rows with equal check_in stay in table order,
\* in both statements alike, since they differ in the selected columns only
RECURSIVE order_by_check_in_desc(_)
order_by_check_in_desc(rows) ==
    IF rows = <<>> THEN <<>>
    ELSE LET first == CHOOSE i \in 1..Len(rows) :
                          /\ \A j \in 1..Len(rows) : rows[j].check_in <= rows[i].check_in
                          /\ \A j \in 1..i - 1 : rows[j].check_in < rows[i].check_in
         IN  <<rows[first]>> \o
                 order_by_check_in_desc(SeqFilter(rows, (1..Len(rows)) \ {first}))

\* owner_dashboard: attendance = cur.fetchall(), rows (username, check_in,
\* check_out) with check_out None for an open record; <<None>> is no text
owner_dashboard(from_date, to_date) ==
    LET rows == order_by_check_in_desc(joined(from_date, to_date))
    IN  [k \in 1..Len(rows) |->
            <<chars(users[rows[k].user_id].username),
              strftime_iso(rows[k].check_in),
              IF rows[k].check_out = NULL THEN <<None>>
              ELSE strftime_iso(rows[k].check_out)>>]

\* csv.writer, excel dialect: a field that holds the delimiter, the quote
\* character or a line end is quoted, and its quotes are doubled
RECURSIVE double_quotes(_)
\* a writer that leaves the quotes of a field single (doublequote=False)
double_quotes_single(field) == field

double_quotes(field) ==
    IF field = <<>> THEN <<>>
    ELSE IF Head(field) = DQUOTE
         THEN <<DQUOTE, DQUOTE>> \o double_quotes(Tail(field))
         ELSE <<Head(field)>> \o double_quotes(Tail(field))

csv_field(field) ==
    IF \E i \in 1..Len(field) : field[i] \in {",", DQUOTE, CR, LF}
    THEN <<DQUOTE>> \o double_quotes(field) \o <<DQUOTE>>
    ELSE field

RECURSIVE writerow(_)
writerow(fields) ==
    IF Len(fields) = 1 THEN csv_field(fields[1]) \o <<CR, LF>>
    ELSE csv_field(Head(fields)) \o <<",">> \o writerow(Tail(fields))

RECURSIVE writerows(_)
writerows(rows) ==
    IF rows = <<>> THEN <<>> ELSE writerow(Head(rows)) \o writerows(Tail(rows))

\* export_attendance: csv_data
export_attendance(from_date, to_date) ==
    LET rows == order_by_check_in_desc(joined(from_date, to_date))
    IN  writerow(<<chars("username"), chars("role"), chars("check_in"),
                   chars("check_out")>>)
        \o writerows([k \in 1..Len(rows) |->
               <<chars(users[rows[k].user_id].username),
                 chars(users[rows[k].user_id].role),
                 strftime_iso(rows[k].check_in),
                 IF rows[k].check_out = NULL THEN chars("")
                 ELSE strftime_iso(rows[k].check_out)>>])

\* csv.reader, excel dialect: one step of its state machine.  p holds the
\* field and the row being read, the rows read and the state.
csv_step(p, c) ==
    IF p.state = "in_quoted_field"
    THEN IF c = DQUOTE
         THEN [p EXCEPT !.state = "quote_in_quoted_field"]
         ELSE [p EXCEPT !.field = Append(@, c)]
    ELSE IF c \in {CR, LF}
    THEN IF p.state \in {"start_record", "eat_crnl"}
         THEN p
         ELSE [field |-> <<>>, row |-> <<>>,
               rows |-> Append(p.rows, Append(p.row, p.field)),
               state |-> "eat_crnl"]
    ELSE IF c = DQUOTE /\ p.state = "quote_in_quoted_field"
    THEN [p EXCEPT !.field = Append(@, DQUOTE), !.state = "in_quoted_field"]
    ELSE IF c = DQUOTE /\ p.state \in {"start_record", "eat_crnl", "start_field"}
    THEN [p EXCEPT !.state = "in_quoted_field"]
    ELSE IF c = ","
    THEN [p EXCEPT !.field = <<>>, !.row = Append(@, p.field),
                   !.state = "start_field"]
    ELSE [p EXCEPT !.field = Append(@, c), !.state = "in_field"]

\* the state machine run over text[i..]; the test of q.state, which is
\* never empty, makes TLC evaluate each step before it takes the next
RECURSIVE csv_parse(_, _, _)
csv_parse(text, i, p) ==
    IF i > Len(text)
    THEN IF p.state \in {"start_record", "eat_crnl"} THEN p.rows
         ELSE Append(p.rows, Append(p.row, p.field))
    ELSE LET q == csv_step(p, text[i])
         IN  IF q.state = "" THEN <<>> ELSE csv_parse(text, i + 1, q)

csv_reader(text) ==
    csv_parse(text, 1, [field |-> <<>>, row |-> <<>>, rows |-> <<>>,
                        state |-> "start_record"])

\* the export read back: the data rows, columns username, check_in, check_out
export_parsed(from_date, to_date) ==
    LET rows == Tail(csv_reader(export_attendance(from_date, to_date)))
    IN  [k \in 1..Len(rows) |-> <<rows[k][1], rows[k][3], rows[k][4]>>]

\* the rows of the dashboard with None shown as the empty text
dashboard_rows(from_date, to_date) ==
    LET rows == owner_dashboard(from_date, to_date)
    IN  [k \in 1..Len(rows) |->
            <<rows[k][1], rows[k][2],
              IF rows[k][3] = <<None>> THEN chars("") ELSE rows[k][3]>>]

\* C20: the CSV text of export_attendance, read back, gives the rows
\* (username, check_in, check_out) of the owner dashboard for the same
\* from_date and to_date, in the same order, an open record's check_out
\* being the empty text.
C20_ExportRoundTrip ==
    variant = "trail12" =>
        \A from_date \in FilterDates, to_date \in FilterDates :
            export_parsed(from_date, to_date) = dashboard_rows(from_date, to_date)

C20_Witness ==
    /\ variant = "trail12"
    /\ Len(export_parsed(<<>>, <<>>)) = 2
    /\ \E k \in 1..2 :
          /\ export_parsed(<<>>, <<>>)[k][1] = chars("a,'b")
          /\ export_parsed(<<>>, <<>>)[k][3] = chars("")
    /\ \E k \in 1..2 : export_parsed(<<>>, <<>>)[k][3] # chars("")
    /\ export_parsed(<<digit(Max(Dates) + 1)>>, <<>>) = <<>>

(***************************************************************************)
(* trail12.py over several days: the clock read once a day or more.        *)
(***************************************************************************)
MaxDays == 2

\* the wall clock a day later
NextDay ==
    /\ date(now) + 1 < MaxDays
    /\ now' = now + TicksPerDay
    /\ UNCHANGED <<variant, inflight, stores, session, flash>>

Next12d ==
    \/ \E u \in {"owner", ""}, p \in Passwords : t12_register_owner(u, p)
    \/ \E u \in {"owner", "7"}, p \in Passwords : t12_login(u, p)
    \/ t12_logout
    \/ \E u \in {"7", "a,'b"}, p \in Passwords : t12_manage_staff_add(u, p)
    \/ \E i \in 1..MaxUserId : t12_manage_staff_delete(i)
    \/ \E q \in QRValues : t12_scan_qr(q)
    \/ \E i \in 0..MaxUserId : t12_owner_mark_attendance(i)
    \/ Tick
    \/ NextDay

Spec12d == Init12 /\ [][Next12d]_vars

\* the rows the two attendance statements select, before the columns are
\* taken: FROM ... JOIN ... WHERE ... ORDER BY a.check_in DESC
query(from_date, to_date) == order_by_check_in_desc(joined(from_date, to_date))

\* the stored records whose check-in day lies within the bounds given
in_bounds(from_date, to_date) ==
    {i \in 1..Len(attendance) :
        /\ from_date # <<>> => DigitVal(from_date[1]) <= date(attendance[i].check_in)
        /\ to_date # <<>> => date(attendance[i].check_in) <= DigitVal(to_date[1])}

\* C21: for every pair of bounds the attendance query returns exactly the
\* stored records whose check-in day lies within the bounds (a bound left
\* out does not restrict), latest check-in first, each with the username of
\* its user.
C21_QueryFilterOrder ==
    variant = "trail12" =>
        \A from_date \in FilterDates, to_date \in FilterDates :
            LET rows == query(from_date, to_date)
            IN  /\ Len(rows) = Cardinality(in_bounds(from_date, to_date))
                /\ {rows[k].id : k \in 1..Len(rows)} =
                      {attendance[i].id : i \in in_bounds(from_date, to_date)}
                /\ \A k \in 1..Len(rows) - 1 : rows[k].check_in >= rows[k + 1].check_in
                /\ \A k \in 1..Len(rows) :
                      /\ rows[k].user_id \in DOMAIN users
                      /\ owner_dashboard(from_date, to_date)[k][1] =
                            chars(users[rows[k].user_id].username)

(***************************************************************************)
(* trail12.py: the today status shown on the two dashboards.               *)
(***************************************************************************)
\* datetime.now().strftime("%Y-%m-%d")
today(t) == <<digit(date(t))>>

\* substr(check_in,1,10): the day of a stored check-in text
substr_1_10(check_in) == <<strftime_iso(check_in)[1]>>

\* a status that looks at the records of every day
today_status_any_day(user_id) ==
    IF \E i \in 1..Len(attendance) : attendance[i].user_id = user_id
    THEN "Present" ELSE "Absent"

\* CASE WHEN EXISTS (SELECT 1 FROM attendance WHERE user_id=? AND
\*   substr(check_in,1,10)=?) THEN 'Present' ELSE 'Absent' END
today_status(user_id) ==
    IF \E i \in 1..Len(attendance) :
          /\ attendance[i].user_id = user_id
          /\ substr_1_10(attendance[i].check_in) = today(now)
    THEN "Present" ELSE "Absent"

\* owner_dashboard: users = cur.fetchall(), the today_status of every user
owner_dashboard_users == [u \in DOMAIN users |-> today_status(u)]

\* staff_dashboard: today_status of the user of the session
staff_dashboard_today_status == today_status(session.user_id)

\* the user has a record whose check-in lies on the current day
checked_in_today(u) ==
    \E i \in 1..Len(attendance) :
        attendance[i].user_id = u /\ date(attendance[i].check_in) = date(now)

\* C22: the today status of a user, on the owner dashboard and on the
\* user's own dashboard, is Present exactly when the user has a record whose
\* check-in lies on the current day, open or closed, and Absent otherwise;
\* an open record of an earlier day does not count.
C22_TodayStatus ==
    variant = "trail12" =>
        /\ \A u \in DOMAIN users :
              owner_dashboard_users[u] =
                  IF checked_in_today(u) THEN "Present" ELSE "Absent"
        /\ (session # NoSession /\ session.user_id \in DOMAIN users) =>
              staff_dashboard_today_status =
                  IF checked_in_today(session.user_id) THEN "Present" ELSE "Absent"

\* an open record of yesterday beside a record of today that is closed
C22_Witness ==
    /\ variant = "trail12"
    /\ \E u, v \in DOMAIN users :
          /\ \E i \in 1..Len(attendance) :
                /\ attendance[i].user_id = u
                /\ attendance[i].check_out = NULL
                /\ date(attendance[i].check_in) < date(now)
          /\ owner_dashboard_users[u] = "Absent"
          /\ \E i \in 1..Len(attendance) :
                /\ attendance[i].user_id = v
                /\ attendance[i].check_out # NULL
                /\ date(attendance[i].check_in) = date(now)
          /\ owner_dashboard_users[v] = "Present"
    /\ session # NoSession

\* bounds that select one of two stored records
C21_Witness ==
    /\ variant = "trail12"
    /\ Len(query(<<>>, <<>>)) = 2
    /\ Len(query(<<digit(1)>>, <<>>)) = 1
    /\ Len(query(<<>>, <<digit(0)>>)) = 1

(***************************************************************************)
(* Requests whose storage step fails (disk full, file or database not      *)
(* writable).  trail12.py: sqlite3 opens a transaction at the first INSERT *)
(* or DELETE of a connection and rolls it back when the connection is      *)
(* dropped without commit.  trail4.py: to_csv opens attendance.csv for     *)
(* writing, which empties it, and then writes the rows.                    *)
(***************************************************************************)
\* the statements of manage_staff, action add, that touch the disk
AddSteps == {"INSERT", "commit", "generate_qr_for_user"}

\* the statements of manage_staff, action delete, that touch the database
DeleteSteps == {"DELETE attendance", "DELETE messages", "DELETE users", "commit"}

\* manage_staff, action add, with the statement `step` raising an error that
\* is no sqlite3.IntegrityError: the request ends with status 500
t12_manage_staff_add_fails(username, password, step) ==
    /\ variant = "trail12"
    /\ login_required("owner") = "ok"
    /\ username # "" /\ password # ""
    /\ ~username_taken(username)
    /\ UNCHANGED <<variant, inflight, now>>
    /\ UNCHANGED <<attendance, messages, session>>
    /\ IF step = "generate_qr_for_user"
       THEN insert_user(username, password, "staff")
       ELSE UNCHANGED <<users, sqlite_sequence>>
    /\ flash' = <<"500 Internal Server Error", "">>

\* manage_staff, action delete, with the statement `step` raising
t12_manage_staff_delete_fails(user_id, step) ==
    /\ variant = "trail12"
    /\ login_required("owner") = "ok"
    /\ is_staff_id(user_id)
    /\ UNCHANGED <<variant, inflight, now>>
    /\ UNCHANGED <<stores, session>>
    /\ flash' = <<"500 Internal Server Error", "">>

\* scan_qr with its UPDATE, INSERT or commit raising
t12_scan_qr_fails(qr_value) ==
    /\ variant = "trail12"
    /\ login_required("owner") = "ok"
    /\ ~qr_invalid(qr_value)
    /\ is_staff_id(py_int(after_colon(strip(qr_value))))
    /\ UNCHANGED <<variant, inflight, now>>
    /\ UNCHANGED <<stores, session>>
    /\ flash' = <<"500 Internal Server Error", "">>

\* show_mark_attendance_page with save_attendance_data raising: at open()
\* (written = -1, the file is as it was) or after `written` rows
t4_show_mark_attendance_page_fails(selected_staff, mark_present_button, written) ==
    /\ variant = "trail4"
    /\ UNCHANGED <<variant, inflight, now, users, messages, sqlite_sequence>>
    /\ t4_page_shown = "mark_attendance"
    /\ selected_staff \in staff_members
    /\ LET df == t4_load_attendance
           current_date == date(now)
           is_present == mark_present_button
           check_in_str == IF is_present THEN time(now) ELSE EmptyStr
           new == Append(df,
                     [username |-> <<"str", selected_staff>>,
                      date |-> current_date,
                      check_in_time |-> check_in_str,
                      is_present |-> is_present])
       IN  /\ ~t4_has_marked_today(df, selected_staff, current_date)
           /\ Len(df) < MaxRows
           /\ written \in -1..Len(new)
           /\ IF written = -1 THEN UNCHANGED attendance
              ELSE t4_save_attendance_data(SubSeq(new, 1, written))
           /\ flash' = <<"OSError", selected_staff>>
           /\ UNCHANGED session

Init12_4 == Init12 \/ Init4

Next12_4f ==
    \/ Next12
    \/ Next4
    \/ \E u \in {"7", "a,'b"}, p \in Passwords, step \in AddSteps :
          t12_manage_staff_add_fails(u, p, step)
    \/ \E i \in 1..MaxUserId, step \in DeleteSteps : t12_manage_staff_delete_fails(i, step)
    \/ \E q \in QRValues : t12_scan_qr_fails(q)
    \/ \E u \in Usernames, b \in BOOLEAN, written \in -1..MaxRows :
          t4_show_mark_attendance_page_fails(u, b, written)

Spec12_4f == Init12_4 /\ [][Next12_4f]_vars

\* C23: a write operation whose storage step fails leaves the persisted
\* users, attendance records and messages as they were before the operation.
C23_StorageFailureLeavesState ==
    [][(\/ \E u \in Usernames12, p \in Passwords, step \in AddSteps :
              t12_manage_staff_add_fails(u, p, step)
        \/ \E i \in 1..MaxUserId, step \in DeleteSteps :
              t12_manage_staff_delete_fails(i, step)
        \/ \E q \in QRValues : t12_scan_qr_fails(q)
        \/ \E u \in Usernames, b \in BOOLEAN, written \in -1..MaxRows :
              t4_show_mark_attendance_page_fails(u, b, written))
       => UNCHANGED <<users, attendance, messages>>]_vars

(***************************************************************************)
(* The frame of a toggle.                                                  *)
(***************************************************************************)
\* the stored attendance records of the users other than u, in table order
records_of_others(u) ==
    SeqFilter(attendance,
        {i \in 1..Len(attendance) :
            IF variant = "trail12" THEN attendance[i].user_id # u
            ELSE attendance[i].username # u})

\* C24: a toggle for a user, check-in or check-out, leaves the attendance
\* records of every other user and the user store as they were.
C24_ToggleFrame ==
    [][/\ \A u \in 1..MaxUserId :
             (/\ t12_scan_qr(qr_data(u)) \/ t12_owner_mark_attendance(u)
              /\ flash'[1] \in {"Checked IN", "Checked OUT"}) =>
                 /\ (records_of_others(u))' = records_of_others(u)
                 /\ users' = users
       /\ \A u \in Usernames \cup {"NA"} :
             (/\ t9_dashboard_mark_attendance(<<u>>)
              /\ flash'[1] \in {"checked in", "checked out"}) =>
                 /\ (records_of_others(u))' = records_of_others(u)
                 /\ users' = users]_vars

(***************************************************************************)
(* trail9.py with two browser sessions of the owner: Streamlit runs the    *)
(* script of each session on a thread of its own, so one mark_attendance   *)
(* can load attendance.csv, and another can run, before the first saves.   *)
(***************************************************************************)
\* mark_attendance lines 79-82: the frame and the time the call works on
t9_mark_attendance_load(decoded_objects) ==
    /\ variant = "trail9"
    /\ UNCHANGED <<variant, now, stores, session, flash>>
    /\ session.logged_in /\ session.role = "owner"
    /\ truthy(scan_qr_image(decoded_objects))
    /\ Len(inflight) < MaxInflight
    /\ inflight' = Append(inflight,
           [route |-> "mark_attendance", username |-> scan_qr_image(decoded_objects),
            now |-> now, df |-> load_attendance])

\* mark_attendance lines 83-94, on the frame loaded before
t9_mark_attendance_save(k) ==
    /\ variant = "trail9"
    /\ k \in 1..Len(inflight)
    /\ inflight[k].route = "mark_attendance"
    /\ UNCHANGED <<variant, now, users, messages, sqlite_sequence, session>>
    /\ inflight' = drop(inflight, k)
    /\ LET df == inflight[k].df
           username == inflight[k].username
           mine == user_records(df, username)
       IN  IF mine = {} \/ notna(df[Max(mine)].check_out_time)
           THEN /\ Len(df) < MaxRows
                /\ save_attendance(Append(df,
                       [username |-> <<"str", username>>,
                        check_in_time |-> inflight[k].now,
                        check_out_time |-> EmptyStr]))
                /\ flash' = <<"checked in", username>>
           ELSE /\ save_attendance(
                     [i \in 1..Len(df) |->
                         IF i \in mine
                         THEN [df[i] EXCEPT !.check_out_time = inflight[k].now]
                         ELSE df[i]])
                /\ flash' = <<"checked out", username>>

Next9c ==
    \/ t9_login_page("owner", "owner123")
    \/ \E u \in {"a", "7"}, p \in Passwords : t9_dashboard_add_staff(u, p)
    \/ \E u \in {"a", "7"} : t9_dashboard_mark_attendance(<<u>>)
    \/ \E u \in {"a", "7"} : t9_mark_attendance_load(<<u>>)
    \/ \E k \in 1..MaxInflight : t9_mark_attendance_save(k)
    \/ Tick

Spec9c == Init9 /\ [][Next9c]_vars

\* C25: when a toggle writes after a toggle of another user has run since it
\* read, the ledger keeps the records of the other users as that toggle left
\* them, and holds the new record or the check-out of the writing toggle.
C25_InterleavedTogglesBothTakeEffect ==
    [][\A k \in 1..MaxInflight :
          /\ \A u \in 1..MaxUserId, t \in 1..MaxTime :
                (/\ check_in_or_out_commit(k)
                 /\ inflight[k].user_id = u /\ inflight[k].now = t
                 /\ inflight[k].open_row # NULL =>
                       \E i \in 1..Len(attendance) :
                           attendance[i].id = inflight[k].open_row) =>
                   /\ (records_of_others(u))' = records_of_others(u)
                   /\ \E i \in 1..Len(attendance') :
                         /\ attendance'[i].user_id = u
                         /\ t \in {attendance'[i].check_in, attendance'[i].check_out}
          /\ \A u \in Usernames, t \in 1..MaxTime :
                (/\ t9_mark_attendance_save(k)
                 /\ inflight[k].username = u /\ inflight[k].now = t) =>
                   /\ (records_of_others(u))' = records_of_others(u)
                   /\ \E i \in 1..Len(attendance') :
                         /\ attendance'[i].username = u
                         /\ t \in {attendance'[i].check_in_time,
                                    attendance'[i].check_out_time}]_vars

(***************************************************************************)
(* trail12.py: the references between the tables.                          *)
(***************************************************************************)
\* C26: every attendance row's user_id and every message's to_user_id is
\* the id of a row of users.
C26_ReferentialIntegrity ==
    variant = "trail12" =>
        /\ \A i \in 1..Len(attendance) : attendance[i].user_id \in DOMAIN users
        /\ \A i \in 1..Len(messages) : messages[i].to_user_id \in DOMAIN users

\* the same for the attendance table alone
AttendanceRefersToUsers ==
    variant = "trail12" =>
        \A i \in 1..Len(attendance) : attendance[i].user_id \in DOMAIN users

(***************************************************************************)
(* The owner account, in the variants that have a remove-staff operation   *)
(* over a user store keyed by username or id.                              *)
(***************************************************************************)
Init12_4_6_8 == Init12 \/ Init4 \/ Init6 \/ Init8

Next12_4_6_8 == Next12 \/ Next4 \/ Next6 \/ Next8

Spec12_4_6_8 == Init12_4_6_8 /\ [][Next12_4_6_8]_vars

has_owner == \E i \in DOMAIN users : users[i].role = "owner"

\* C27: every user that a step removes from the user store has role staff,
\* and a user store that holds an owner account holds one after every step.
C27_OwnerAlwaysExists ==
    [][/\ \A i \in DOMAIN users \ DOMAIN users' : users[i].role = "staff"
       /\ has_owner => has_owner']_vars

\* a staff member has just been removed
C27_Witness ==
    /\ has_owner
    /\ flash[1] \in {"Staff deleted.", "removed.", "Removed staff"}

(***************************************************************************)
(* trail12.py: the manual mark of the owner and the scan of a QR code.     *)
(***************************************************************************)
\* C28: for every staff member s, owner_mark_attendance with staff_id s and
\* scan_qr with the QR text of s lead from each state to the same states
\* (the same record closed or opened, the same message); for an id that is
\* no staff member both leave users, attendance and messages unchanged.
C28_ManualMarkEqualsScan ==
    [][\A s \in 1..MaxUserId :
          /\ (login_required("owner") = "ok" /\ is_staff_id(s)) =>
                (t12_owner_mark_attendance(s) <=> t12_scan_qr(qr_data(s)))
          /\ (/\ login_required("owner") = "ok" /\ ~is_staff_id(s)
              /\ t12_owner_mark_attendance(s) \/ t12_scan_qr(qr_data(s))) =>
                /\ UNCHANGED stores
                /\ flash'[1] \in {"Selected user is not staff.",
                                  "QR does not belong to a staff member."}]_vars

\* a record that a toggle has closed, and a staff member with no open record
C28_Witness ==
    /\ variant = "trail12"
    /\ flash[1] = "Checked OUT"
    /\ \E i \in 1..Len(attendance) : attendance[i].check_out # NULL
    /\ \E s \in DOMAIN users : is_staff_id(s) /\ open_rows(s) = {}

(***************************************************************************)
(* trail8.py with a staff member whose username is one of the texts that   *)
(* pandas reads as a missing value.                                        *)
(***************************************************************************)
Usernames8n == {"a", "NA"}

Next8n ==
    \/ t8_main_login("owner", "owner_password")
    \/ \E a \in {"add_staff", "mark_attendance", "edit_attendance",
                 "delete_attendance"} : t8_show_owner_dashboard(a)
    \/ \E u \in Usernames8n, p \in Passwords : t8_add_staff(u, p)
    \/ \E u \in Usernames8n, d \in Dates, ci \in Times, co \in Times, b \in BOOLEAN :
          t8_mark_attendance_page(u, d, ci, co, b)
    \/ \E i \in 1..MaxRows, ci \in Times, co \in Times, b \in BOOLEAN :
          t8_edit_attendance_page(i, ci, co, b)
    \/ \E s \in SUBSET (1..MaxRows) : t8_delete_attendance_page(s)
    \/ Tick

Spec8n == Init8 /\ [][Next8n]_vars

\* C29: an edit changes only check_in_time, check_out_time and is_present
\* of the selected record and leaves its username, its date and every other
\* record unchanged; a delete removes exactly the selected records and
\* leaves the remaining records unchanged, in their order.
C29_EditDeleteFrame ==
    [][/\ \A idx \in 1..MaxRows :
             (\E ci \in Times, co \in Times, b \in BOOLEAN :
                  t8_edit_attendance_page(idx, ci, co, b)) =>
                /\ Len(attendance') = Len(attendance)
                /\ attendance'[idx].username = attendance[idx].username
                /\ attendance'[idx].date = attendance[idx].date
                /\ \A j \in 1..Len(attendance) :
                      j # idx => attendance'[j] = attendance[j]
       /\ \A s \in SUBSET (1..MaxRows) :
             t8_delete_attendance_page(s) =>
                attendance' = SeqFilter(attendance, (1..Len(attendance)) \ s)]_vars

(***************************************************************************)
(* Sessions of trail12.py, trail4.py and trail9.py.                        *)
(***************************************************************************)
Usernames9s == {"owner", "a"}

Next9s ==
    \/ \E u \in Usernames9s, p \in Passwords \cup {"owner123"} : t9_login_page(u, p)
    \/ \E p \in {"login", "qr_login"} : t9_goto(p)
    \/ \E d \in {<<>>} \cup {<<u>> : u \in Usernames9s} : t9_qr_login_page(d)
    \/ t9_logout
    \/ \E d \in {<<u>> : u \in Usernames9s} : t9_dashboard_mark_attendance(d)
    \/ \E u \in Usernames9s, p \in Passwords : t9_dashboard_add_staff(u, p)
    \/ \E u \in Usernames9s : t9_dashboard_remove_staff(u)

Init12_4_9 == Init12 \/ Init4 \/ Init9

Next12_4_9s == Next12 \/ Next4 \/ Next9s

Spec12_4_9s == Init12_4_9 /\ [][Next12_4_9s]_vars

\* "user_id" in session / st.session_state.authenticated / .logged_in
authenticated ==
    CASE variant = "trail12" -> "user_id" \in DOMAIN session
      [] variant = "trail4" -> session.authenticated
      [] OTHER -> session.logged_in

\* the roles the user store holds for a username
stored_roles(username) ==
    CASE variant = "trail12" ->
             {users[i].role : i \in {j \in DOMAIN users : users[j].username = username}}
      [] variant = "trail4" ->
             {users[u].role : u \in DOMAIN users \cap {username}}
      [] OTHER ->
             {load_users[i].role :
                 i \in {j \in 1..Len(load_users) : load_users[j].username = username}}

\* the stored password (hash) of a username matches the typed password
password_matches(username, password) ==
    CASE variant = "trail12" ->
             \E i \in DOMAIN users :
                 /\ users[i].username = username
                 /\ check_password_hash(users[i].password_hash, password)
      [] variant = "trail4" ->
             /\ username \in DOMAIN users
             /\ users[username].password = hash_password(password)
      [] OTHER ->
             \E i \in 1..Len(load_users) :
                 /\ load_users[i].username = username
                 /\ load_users[i].password = password

AllPasswords == Passwords \cup {"owner_password", "owner123", "bad"}

\* the step is a login with a password the store accepts, or a QR login
\* with the code of a stored user
successful_login ==
    \/ \E u \in Usernames \cup Usernames12, p \in AllPasswords :
          /\ t12_login(u, p) \/ t4_show_login_page(u, p) \/ t9_login_page(u, p)
          /\ password_matches(u, p)
          /\ session'.username = u
    \/ \E d \in Decoded9 :
          /\ t9_qr_login_page(d)
          /\ d # <<>>
          /\ stored_roles(d[1]) # {}
          /\ session'.username = d[1]

is_logout == t12_logout \/ t4_perform_logout \/ t9_logout

====
